---- MODULE Spec2Model ----
(***************************************************************************)
(* Decision engine (scaling_engine.py), resource lifecycle manager         *)
(* (resource_manager.py) and the two drivers that connect them (main.py's  *)
(* decision loop, dashboard.py's manual execute handler).                  *)
(*                                                                         *)
(* Units.  Python dicts are functions whose DOMAIN is the set of keys, so  *)
(* a missing key is a missing field.  Time is in tenths of a second (the   *)
(* simulated step latencies are 0.1 s and 0.2 s); the cooldowns of the     *)
(* configuration stay in seconds, as in the file, and are converted where  *)
(* the code compares them with total_seconds().  Loads are integers in     *)
(* 0..100, confidences are in thousandths, resource amounts are in         *)
(* hundredths of a core / GB, costs are in cents.                          *)
(***************************************************************************)
EXTENDS Integers, Sequences, FiniteSets, TLC

VARIABLES
    config,             \* ScalingEngine.config
    current_state,      \* ResourceManager.current_state
    execution_history,  \* ResourceManager.execution_history
    now,                \* datetime.now(), tenths of a second
    driver,             \* who calls: main.py's "loop", the "dashboard", or a direct
                        \* caller of the "engine" or of the manager's "api"
    event_log,          \* history: every scaling event ever appended, in order
    last,               \* history: the last call, its inputs and what it returned
    predictor,          \* DemandPredictor: is_trained, feature_columns, scaler, model
    metrics_history,    \* MetricsCollector.metrics_history
    threads,            \* the threads running against these objects, each with the
                        \* place it has reached and its locals
    files               \* the working directory: file name -> the document in it

vars == <<config, current_state, execution_history, now, driver, event_log, last,
          predictor, metrics_history, threads, files>>

----------------------------------------------------------------------------
(* Bounds of the model *)

MaxRecent == 12
MaxCalls == 2
MaxRequests == 7
MaxCycles == 3
MaxLongGaps == 2
MaxDetours == 1
MaxAppended == 55
MaxHorizon == 5
MaxSteps == 3
MaxSamples == 6
MaxWindow == 3
MaxThreads == 2
MaxArrival == 20
MaxStored == 12
MaxSampled == 6
MaxRounds == 1
MaxTrainings == 3
MaxRestarts == 2
MaxCounted == 5
MaxRepeats == 2

----------------------------------------------------------------------------
(* Helpers *)

Get(d, k, default) == IF k \in DOMAIN d THEN d[k] ELSE default

Min(a, b) == IF a < b THEN a ELSE b

Max(a, b) == IF a > b THEN a ELSE b

\* s[-n:]
LastN(s, n) == IF Len(s) <= n THEN s ELSE SubSeq(s, Len(s) - n + 1, Len(s))

\* s[:n]
FirstN(s, n) == IF Len(s) <= n THEN s ELSE SubSeq(s, 1, n)

Reversed(s) == [i \in 1..Len(s) |-> s[Len(s) + 1 - i]]

\* timedelta.total_seconds() * 10 of a number of seconds
Seconds(s) == s * 10

EmptyDict == [k \in {} |-> 0]

UpdatedKeepsOld(d, other) == d @@ other

\* dict.update: d with the entries of other put over it
Updated(d, other) == other @@ d

\* json: a document is the text json.dump writes, kept as its syntax tree.  A
\* number, a string, an array of documents, an object of named documents, or
\* a text cut short, which json.load refuses.
JsonNumber(n) == [type |-> "number", value |-> n]

JsonString(s) == [type |-> "string", value |-> s]

JsonArray(items) == [type |-> "array", items |-> items]

JsonObject(members) == [type |-> "object", members |-> members]

Truncated == [type |-> "truncated"]

RECURSIVE json_load(_)
\* json.load on a document that parses
json_load(document) ==
    CASE document.type = "object" ->
            [k \in DOMAIN document.members |-> json_load(document.members[k])]
      [] document.type = "array" ->
            [i \in DOMAIN document.items |-> json_load(document.items[i])]
      [] OTHER -> document.value

----------------------------------------------------------------------------
(* scaling_engine.py *)

default_config ==
    [min_instances |-> 1, max_instances |-> 10,
     scale_up_threshold |-> 70, scale_down_threshold |-> 30,
     scale_up_cooldown |-> 300, scale_down_cooldown |-> 600,
     confidence_threshold |-> 600,
     resource_limits |-> [cpu_cores |-> 1600, memory_gb |-> 3200, storage_gb |-> 50000]]

config_file == "scaling_config.json"

\* json.dump(default_config, f): every value of the configuration is a number,
\* but for resource_limits, an object of numbers
DumpConfig(c) ==
    JsonObject([k \in DOMAIN c |->
                  IF k = "resource_limits"
                  THEN JsonObject([r \in DOMAIN c[k] |-> JsonNumber(c[k][r])])
                  ELSE JsonNumber(c[k])])

\* _load_config: the defaults, with the top-level keys of the configuration
\* document put over them when the file is there and parses; the merged
\* configuration is written back.  What the engine holds and the files it leaves.
_load_config(fs) ==
    LET merged ==
            IF config_file \in DOMAIN fs /\ fs[config_file].type = "object"
            THEN Updated(default_config, json_load(fs[config_file]))
            ELSE default_config
    IN  [config |-> merged, files |-> (config_file :> DumpConfig(merged)) @@ fs]

RECURSIVE CooldownScan(_, _, _)
\* The for loop of _check_cooldown over ds, from index i on.
CooldownScan(ds, i, current_time) ==
    IF i > Len(ds) THEN [allowed |-> TRUE]
    ELSE LET decision == ds[i]
             time_diff == current_time - decision.timestamp
         IN  IF decision.action = "scale_up"
                /\ time_diff < Seconds(config.scale_up_cooldown)
             THEN [allowed |-> FALSE, reason |-> "Scale-up cooldown active",
                   remaining_time |-> Seconds(config.scale_up_cooldown) - time_diff]
             ELSE IF decision.action = "scale_down"
                     /\ time_diff < Seconds(config.scale_down_cooldown)
             THEN [allowed |-> FALSE, reason |-> "Scale-down cooldown active",
                   remaining_time |-> Seconds(config.scale_down_cooldown) - time_diff]
             ELSE CooldownScan(ds, i + 1, current_time)

CheckCooldownOldestFirst(recent_decisions, current_time) ==
    IF recent_decisions = <<>> THEN [allowed |-> TRUE]
    ELSE CooldownScan(LastN(recent_decisions, 10), 1, current_time)

_check_cooldown(recent_decisions, current_time) ==
    IF recent_decisions = <<>> THEN [allowed |-> TRUE]
    ELSE CooldownScan(Reversed(LastN(recent_decisions, 10)), 1, current_time)

_calculate_resource_allocation(instances, predicted_load) ==
    LET cpu_per_instance == 200 + 2 * predicted_load
        memory_per_instance == 400 + 4 * predicted_load
        storage_per_instance == 2000 + 10 * predicted_load
    IN  [total_cpu_cores |-> Min(config.resource_limits.cpu_cores,
                                 instances * cpu_per_instance),
         total_memory_gb |-> Min(config.resource_limits.memory_gb,
                                 instances * memory_per_instance),
         total_storage_gb |-> Min(config.resource_limits.storage_gb,
                                  instances * storage_per_instance),
         cpu_per_instance |-> cpu_per_instance,
         memory_per_instance |-> memory_per_instance,
         storage_per_instance |-> storage_per_instance]

AdditionalWithoutMinimum(predicted_load) == (2 * predicted_load) \div 100

\* max(1, int(load_factor * 2)) for a load that is not negative
AdditionalInstances(predicted_load) == Max(1, (2 * predicted_load) \div 100)

TargetInstances(current_state_, recommendation) ==
    LET current_instances == Get(current_state_, "current_instances", 1)
        current_load == Get(current_state_, "load_score", 50)
        predicted_load == Get(recommendation, "max_predicted_load", current_load)
    IN  IF recommendation.action = "scale_up"
        THEN current_instances + AdditionalInstances(predicted_load)
        ELSE IF recommendation.action = "scale_down"
        THEN IF predicted_load < 20 THEN Max(1, current_instances - 2)
             ELSE IF predicted_load < 40 THEN Max(1, current_instances - 1)
             ELSE current_instances
        ELSE current_instances

TargetResourcesAfterClamp(current_state_, recommendation) ==
    LET current_load == Get(current_state_, "load_score", 50)
        predicted_load == Get(recommendation, "max_predicted_load", current_load)
        target_instances == TargetInstances(current_state_, recommendation)
    IN  <<target_instances,
          _calculate_resource_allocation(
              Max(config.min_instances, Min(config.max_instances, target_instances)),
              predicted_load)>>

_calculate_target_resources(current_state_, recommendation) ==
    LET current_load == Get(current_state_, "load_score", 50)
        predicted_load == Get(recommendation, "max_predicted_load", current_load)
        target_instances == TargetInstances(current_state_, recommendation)
    IN  <<target_instances,
          _calculate_resource_allocation(target_instances, predicted_load)>>

_generate_decision_reason(recommendation, target, current) ==
    IF target > current THEN <<"Scaling up", current, target, recommendation.reason>>
    ELSE IF target < current THEN <<"Scaling down", current, target, recommendation.reason>>
    ELSE <<"Maintaining", current, recommendation.reason>>

\* cost_per_instance_hour = 0.10, in cents
_estimate_cost_impact(current_instances, target_instances) ==
    LET current_cost == current_instances * 10
        target_cost == target_instances * 10
        cost_change == target_cost - current_cost
    IN  [current_hourly_cost |-> current_cost,
         target_hourly_cost |-> target_cost,
         hourly_cost_change |-> cost_change,
         daily_cost_change |-> cost_change * 24,
         monthly_cost_change |-> cost_change * 24 * 30]

ClampToMinimum(target_instances) ==
    Max(config.min_instances, target_instances)

ClampToLimits(target_instances) ==
    Max(config.min_instances, Min(config.max_instances, target_instances))

ActionFromRecommendation(recommendation, target_instances, current_instances) ==
    recommendation.action

FinalAction(recommendation, target_instances, current_instances) ==
    IF target_instances > current_instances THEN "scale_up"
    ELSE IF target_instances < current_instances THEN "scale_down"
    ELSE "maintain"

LowConfidenceInclusive(recommendation) ==
    recommendation.confidence <= config.confidence_threshold

\* recommendation['confidence'] < self.config['confidence_threshold']
LowConfidence(recommendation) ==
    recommendation.confidence < config.confidence_threshold

MakeDecisionConfidenceFirst(current_state_, recommendation, recent_decisions, timestamp) ==
    LET cooldown_check == _check_cooldown(recent_decisions, timestamp)
        current_instances == Get(current_state_, "current_instances", 1)
        sized == _calculate_target_resources(current_state_, recommendation)
        target_instances == ClampToLimits(sized[1])
    IN  IF LowConfidence(recommendation)
        THEN [timestamp |-> timestamp,
              action |-> "maintain",
              reason |-> <<"Low confidence", recommendation.confidence>>,
              confidence |-> recommendation.confidence,
              recommended_instances |-> current_instances,
              recommended_resources |-> Get(current_state_, "current_resources", EmptyDict)]
        ELSE IF ~cooldown_check.allowed
        THEN [timestamp |-> timestamp,
              action |-> "maintain",
              reason |-> <<"Cooldown active", cooldown_check.reason>>,
              confidence |-> 1000,
              recommended_instances |-> current_instances,
              recommended_resources |-> Get(current_state_, "current_resources", EmptyDict),
              cooldown_remaining |-> Get(cooldown_check, "remaining_time", 0)]
        ELSE [timestamp |-> timestamp,
              action |-> FinalAction(recommendation, target_instances, current_instances),
              reason |-> _generate_decision_reason(recommendation, target_instances,
                                                   current_instances),
              confidence |-> recommendation.confidence,
              current_instances |-> current_instances,
              recommended_instances |-> target_instances,
              current_resources |-> Get(current_state_, "current_resources", EmptyDict),
              recommended_resources |-> sized[2],
              predicted_load |-> Get(recommendation, "predicted_load", 0),
              max_predicted_load |-> Get(recommendation, "max_predicted_load", 0),
              cost_impact |-> _estimate_cost_impact(current_instances, target_instances)]

make_scaling_decision(current_state_, recommendation, recent_decisions, timestamp) ==
    LET cooldown_check == _check_cooldown(recent_decisions, timestamp)
        current_instances == Get(current_state_, "current_instances", 1)
        sized == _calculate_target_resources(current_state_, recommendation)
        target_instances == ClampToLimits(sized[1])
    IN  IF ~cooldown_check.allowed
        THEN [timestamp |-> timestamp,
              action |-> "maintain",
              reason |-> <<"Cooldown active", cooldown_check.reason>>,
              confidence |-> 1000,
              recommended_instances |-> current_instances,
              recommended_resources |-> Get(current_state_, "current_resources", EmptyDict),
              cooldown_remaining |-> Get(cooldown_check, "remaining_time", 0)]
        ELSE IF LowConfidence(recommendation)
        THEN [timestamp |-> timestamp,
              action |-> "maintain",
              reason |-> <<"Low confidence", recommendation.confidence>>,
              confidence |-> recommendation.confidence,
              recommended_instances |-> current_instances,
              recommended_resources |-> Get(current_state_, "current_resources", EmptyDict)]
        ELSE [timestamp |-> timestamp,
              action |-> FinalAction(recommendation, target_instances, current_instances),
              reason |-> _generate_decision_reason(recommendation, target_instances,
                                                   current_instances),
              confidence |-> recommendation.confidence,
              current_instances |-> current_instances,
              recommended_instances |-> target_instances,
              current_resources |-> Get(current_state_, "current_resources", EmptyDict),
              recommended_resources |-> sized[2],
              predicted_load |-> Get(recommendation, "predicted_load", 0),
              max_predicted_load |-> Get(recommendation, "max_predicted_load", 0),
              cost_impact |-> _estimate_cost_impact(current_instances, target_instances)]

----------------------------------------------------------------------------
(* resource_manager.py *)

state_file == "resource_state.json"

\* json.dump of a scaling event: the instance counts and the execution time are
\* numbers, the timestamp, the action and the reason are strings
DumpEvent(scaling_event) ==
    JsonObject([k \in DOMAIN scaling_event |->
                  IF k \in {"instances_before", "instances_after", "execution_time"}
                  THEN JsonNumber(scaling_event[k])
                  ELSE JsonString(scaling_event[k])])

\* json.dump(self.current_state, f)
DumpState(state) ==
    JsonObject([k \in DOMAIN state |->
                  CASE k = "instances" -> JsonNumber(state[k])
                    [] k = "resources" ->
                          JsonObject([r \in DOMAIN state[k] |-> JsonNumber(state[k][r])])
                    [] k = "scaling_events" ->
                          JsonArray([i \in DOMAIN state[k] |-> DumpEvent(state[k][i])])
                    [] OTHER -> JsonString(state[k])])

\* _save_state, state being stamped already: the document replaces the file
_save_state(fs, state) == (state_file :> DumpState(state)) @@ fs

\* _load_state on a host `machine` at time `at`: the defaults, with the keys of the
\* state document put over them when the file is there, parses, and is something
\* dict.update takes; the bare except leaves the defaults otherwise
_load_state(fs, machine, at) ==
    LET default_state_ ==
            [instances |-> 1, resources |-> machine, status |-> "active",
             last_updated |-> at, scaling_events |-> <<>>]
    IN  IF state_file \notin DOMAIN fs THEN default_state_
        ELSE IF fs[state_file].type # "object" THEN default_state_
        ELSE Updated(default_state_, json_load(fs[state_file]))

\* What a step of the try block hands back: a result dict, or the exception raised
Returned(result, elapsed) == [ok |-> TRUE, result |-> result, elapsed |-> elapsed]

Raised(error, elapsed) == [ok |-> FALSE, error |-> error, elapsed |-> elapsed]

\* execution_time_seconds, in tenths of a second
_simulate_scaling_time(action) ==
    IF action = "scale_up" THEN 20
    ELSE IF action = "scale_down" THEN 10
    ELSE 5

PerInstanceKeys == {"cpu_per_instance", "memory_per_instance", "storage_per_instance"}

\* Six provisioning steps of 0.2 s for each new instance; ids are the numbers n of
\* "instance-n".
_scale_up(decision) ==
    IF "recommended_instances" \notin DOMAIN decision
    THEN Raised("KeyError: recommended_instances", 0)
    ELSE LET current_instances == current_state.instances
             target_instances == decision.recommended_instances
             new_instances == target_instances - current_instances
             looped == IF new_instances > 0 THEN new_instances ELSE 0
         IN  IF "recommended_resources" \notin DOMAIN decision
             THEN Raised("KeyError: recommended_resources", IF looped > 0 THEN 12 ELSE 0)
             ELSE IF looped > 0 /\ ~(PerInstanceKeys \subseteq DOMAIN decision.recommended_resources)
             THEN Raised("KeyError: per-instance resources", 12)
             ELSE Returned(
                    [instances_added |-> new_instances,
                     new_total_instances |-> target_instances,
                     provisioned_instances |->
                        [i \in 1..looped |->
                            [id |-> current_instances + i,
                             cpu_cores |-> decision.recommended_resources.cpu_per_instance,
                             memory_gb |-> decision.recommended_resources.memory_per_instance,
                             storage_gb |-> decision.recommended_resources.storage_per_instance,
                             status |-> "active"]],
                     resource_allocation |-> decision.recommended_resources],
                    12 * looped)

\* Five shutdown steps of 0.1 s for each instance removed, the newest first.
_scale_down(decision) ==
    IF "recommended_instances" \notin DOMAIN decision
    THEN Raised("KeyError: recommended_instances", 0)
    ELSE LET current_instances == current_state.instances
             target_instances == decision.recommended_instances
             instances_to_remove == current_instances - target_instances
             looped == IF instances_to_remove > 0 THEN instances_to_remove ELSE 0
         IN  IF "recommended_resources" \notin DOMAIN decision
             THEN Raised("KeyError: recommended_resources", 5 * looped)
             ELSE Returned(
                    [instances_removed |-> instances_to_remove,
                     new_total_instances |-> target_instances,
                     removed_instances |->
                        [i \in 1..looped |->
                            [id |-> current_instances - (i - 1), status |-> "terminated"]],
                     resource_allocation |-> decision.recommended_resources],
                    5 * looped)

\* Three checks of 0.1 s.
_maintain_resources(decision) ==
    Returned([instances_maintained |-> current_state.instances,
              optimization_applied |-> TRUE,
              resource_allocation |-> current_state.resources], 3)

KeepFirst(events) == FirstN(events, 50)

\* "Keep only last 50 events"
KeepLast(events) == IF Len(events) > 50 THEN LastN(events, 50) ELSE events

ReplacesWhenSized(decision) ==
    {"recommended_instances", "recommended_resources"} \subseteq DOMAIN decision

ReplacesScaleUpOnly(decision) == decision.action = "scale_up"

\* The actions for which _update_state replaces instances and resources
Replaces(decision) == decision.action \in {"scale_up", "scale_down"}

\* _update_state for a completed result, on state: the state it leaves, and whether
\* it raised on the way (the assignments made before the raise stay made).
_update_state(state, decision, execution_result) ==
    LET replaced ==
            IF Replaces(decision)
            THEN [state EXCEPT !.instances = decision.recommended_instances,
                               !.resources = decision.recommended_resources]
            ELSE state
    IN  IF "reason" \notin DOMAIN decision
        THEN [ok |-> FALSE, error |-> "KeyError: reason", state |-> replaced]
        ELSE LET scaling_event ==
                    [timestamp |-> execution_result.timestamp,
                     action |-> decision.action,
                     instances_before |-> execution_result.previous_state.instances,
                     instances_after |-> replaced.instances,
                     reason |-> decision.reason,
                     execution_time |-> execution_result.execution_time_seconds]
             IN  [ok |-> TRUE, event |-> scaling_event,
                  state |-> [replaced EXCEPT !.scaling_events =
                                KeepLast(Append(replaced.scaling_events, scaling_event))]]

\* dict(self.current_state): the scaling_events entry of the copy is the live list
\* itself and nothing reads it through the copy, so the snapshot keeps the other keys.
Snapshot(state) ==
    [instances |-> state.instances, resources |-> state.resources,
     status |-> state.status, last_updated |-> state.last_updated]

Dispatch(decision) ==
    IF decision.action = "scale_up" THEN _scale_up(decision)
    ELSE IF decision.action = "scale_down" THEN _scale_down(decision)
    ELSE _maintain_resources(decision)

FailedKeepsStatus(execution_result, error) ==
    [execution_result EXCEPT !.errors = <<error>>]

\* The except clause of execute_scaling_decision
Failed(execution_result, error) ==
    [execution_result EXCEPT !.status = "failed", !.errors = <<error>>]

\* execute_scaling_decision(decision) called at time `at`: whether the call raised
\* to its caller, what it returned, and the manager it leaves behind.  decision_id
\* (the decision's object identity) is left out of the result.
execute_scaling_decision(decision, at) ==
    IF "action" \notin DOMAIN decision
    THEN [raised |-> TRUE, error |-> "KeyError: action",
          state |-> current_state, history |-> execution_history,
          appended |-> <<>>, elapsed |-> 0]
    ELSE LET started ==
                [timestamp |-> at,
                 action |-> decision.action,
                 status |-> "started",
                 execution_time_seconds |-> _simulate_scaling_time(decision.action),
                 previous_state |-> Snapshot(current_state),
                 errors |-> <<>>,
                 warnings |-> <<>>]
             step == Dispatch(decision)
             completed == [step.result @@ started EXCEPT !.status = "completed"]
             updated == _update_state(current_state, decision, completed)
             execution_result ==
                IF ~step.ok
                THEN Failed(started, step.error)
                ELSE IF ~updated.ok
                THEN Failed(completed, updated.error)
                ELSE completed
             after == IF step.ok THEN updated.state ELSE current_state
         IN  [raised |-> FALSE,
              result |-> execution_result,
              \* _save_state stamps last_updated when the call ends
              state |-> [after EXCEPT !.last_updated = at + step.elapsed],
              history |-> Append(execution_history, execution_result),
              appended |-> IF step.ok /\ updated.ok THEN <<updated.event>> ELSE <<>>,
              elapsed |-> step.elapsed]

\* The manager after a call of execute_scaling_decision(decision) made by `op` at
\* time `at`, the caller pausing for `pause` after it
Executes(op, decision, at, pause) ==
    LET call == execute_scaling_decision(decision, at)
    IN  /\ current_state' = call.state
        /\ execution_history' = call.history
        /\ event_log' = event_log \o call.appended
        /\ now' = at + call.elapsed + pause
        /\ files' = IF call.raised THEN files ELSE _save_state(files, call.state)
        /\ last' = [op |-> op, decision |-> decision, pre |-> current_state,
                    logged |-> Len(event_log), at |-> at, raised |-> call.raised] @@
                   (IF call.raised THEN [error |-> call.error]
                                   ELSE [result |-> call.result])

\* round(num / den * 100, 2) in hundredths of a percent, den > 0: the nearest
\* whole number of hundredths, a tie going to the even one
PercentRounded(num, den) ==
    LET scaled == 10000 * num
        floor == scaled \div den
        rest == scaled - floor * den
    IN  IF 2 * rest > den \/ (2 * rest = den /\ floor % 2 = 1) THEN floor + 1 ELSE floor

SuccessRateOfCalls(total_events, failed_events) ==
    IF total_events + failed_events = 0 THEN 10000
    ELSE PercentRounded(total_events, total_events + failed_events)

\* success_rate_percent, in hundredths of a percent
SuccessRate(total_events, failed_events) ==
    IF total_events = 0 THEN 10000
    ELSE PercentRounded(total_events - failed_events, total_events)

\* _calculate_uptime()
_calculate_uptime ==
    LET total_events == Len(current_state.scaling_events)
        failed_events == Len(SelectSeq(execution_history,
                                       LAMBDA e : Get(e, "status", "") = "failed"))
    IN  [success_rate_percent |-> SuccessRate(total_events, failed_events),
         total_scaling_events |-> total_events,
         failed_events |-> failed_events,
         current_status |-> current_state.status]

get_scaling_history(limit) == LastN(current_state.scaling_events, limit)

\* rollback_last_scaling()
RollbackLastScaling ==
    /\ IF current_state.scaling_events = <<>>
       THEN /\ last' = [op |-> "rollback", raised |-> FALSE,
                        pre |-> current_state, logged |-> Len(event_log), at |-> now,
                        result |-> [status |-> "failed",
                                    reason |-> "No scaling events to rollback"]]
            /\ UNCHANGED <<current_state, execution_history, event_log, now, files>>
       ELSE LET last_event == current_state.scaling_events[Len(current_state.scaling_events)]
            IN  Executes("rollback",
                    [action |-> "rollback",
                     recommended_instances |-> last_event.instances_before,
                     reason |-> <<"Rollback of", last_event.action, last_event.timestamp>>,
                     recommended_resources |-> EmptyDict],
                    now, 0)
    /\ UNCHANGED <<config, driver, predictor, metrics_history, threads>>

----------------------------------------------------------------------------
(* predictor.py: the predictor as constructed *)

\* A LinearRegression or MinMaxScaler that was never fitted.  `pass` records the
\* training pass that fitted the object last (0: none).
Unfitted == [fitted |-> FALSE, n_features_in |-> 0, pass |-> 0]

\* DemandPredictor.__init__.  schema_pass and passes are history: the training
\* pass that set feature_columns, and the number of passes that got as far as
\* setting it.
DemandPredictor ==
    [is_trained |-> FALSE, feature_columns |-> {}, scaler |-> Unfitted,
     model |-> Unfitted, schema_pass |-> 0, passes |-> 0]

\* No thread but the caller
NoThreads == [t \in {} |-> 0]

----------------------------------------------------------------------------
(* The engine called on its own: inputs drawn from bounded sets *)

\* scaling_config.json documents merged over the defaults by _load_config
EngineConfigs ==
    {default_config,
     [default_config EXCEPT !.min_instances = 0, !.max_instances = 3],
     [default_config EXCEPT !.min_instances = 2, !.max_instances = 3,
                            !.scale_up_cooldown = 60, !.scale_down_cooldown = 300]}

\* What _load_state reads from the host: a small and a large machine
Machines ==
    {[total_cpu_cores |-> 400, total_memory_gb |-> 800, total_storage_gb |-> 25000,
      cpu_per_instance |-> 400, memory_per_instance |-> 800,
      storage_per_instance |-> 25000],
     [total_cpu_cores |-> 3200, total_memory_gb |-> 6400, total_storage_gb |-> 100000,
      cpu_per_instance |-> 3200, memory_per_instance |-> 6400,
      storage_per_instance |-> 100000]}

Optional(k, values) == {EmptyDict} \cup {(k :> v) : v \in values}

StateInputs ==
    {a @@ b @@ c :
        a \in Optional("current_instances", {0, 1, 2, 3, 4, 12}),
        b \in Optional("load_score", {50}),
        c \in Optional("current_resources", Machines)}

RecommendationInputs ==
    {[action |-> a, confidence |-> c, reason |-> "r", predicted_load |-> 40] @@ m :
        a \in {"scale_up", "scale_down", "maintain"},
        c \in {500, 600, 900},
        m \in Optional("max_predicted_load", {10, 30, 60, 100})}

PriorAges == {60, 299, 300, 600}

PriorEntries ==
    {[action |-> a, timestamp |-> now - Seconds(age)] :
        a \in {"scale_up", "scale_down"}, age \in PriorAges}

MaintainList(n) == [i \in 1..n |-> [action |-> "maintain", timestamp |-> now - Seconds(10)]]

\* Lists of prior decisions of up to MaxRecent entries, at most two of them scaling actions
RecentLists ==
    {<<>>}
    \cup {[MaintainList(n) EXCEPT ![p] = e] :
            n \in 1..MaxRecent, p \in 1..MaxRecent, e \in PriorEntries}
    \cup {[MaintainList(n) EXCEPT ![p] = e, ![q] = f] :
            n \in 1..MaxRecent, p \in 1..MaxRecent, q \in 1..MaxRecent,
            e \in PriorEntries, f \in PriorEntries}

Decided(cs, rec, recent) ==
    [op |-> "decide", current_state |-> cs, recommendation |-> rec,
     recent_decisions |-> recent, at |-> now,
     decision |-> make_scaling_decision(cs, rec, recent, now)]

\* make_scaling_decision on any state and recommendation, short history
DecideSizing ==
    /\ last.op = "init"
    /\ \E cs \in StateInputs, rec \in RecommendationInputs,
          recent \in {<<>>, <<[action |-> "scale_up", timestamp |-> now - Seconds(60)]>>,
                      <<[action |-> "scale_down", timestamp |-> now - Seconds(600)]>>} :
          last' = Decided(cs, rec, recent)
    /\ UNCHANGED <<config, current_state, execution_history, now, driver, event_log,
                 predictor, metrics_history, threads, files>>

\* make_scaling_decision on any history
DecideCooldown ==
    /\ last.op = "init"
    /\ \E cs \in {[current_instances |-> 2, load_score |-> 50]},
          rec \in {r \in RecommendationInputs :
                      /\ "max_predicted_load" \in DOMAIN r /\ r.max_predicted_load = 100
                      /\ r.action = "scale_up" /\ r.confidence \in {500, 900}},
          recent \in RecentLists :
          last' = Decided(cs, rec, recent)
    /\ UNCHANGED <<config, current_state, execution_history, now, driver, event_log,
                 predictor, metrics_history, threads, files>>

default_state(machine) ==
    [instances |-> 1, resources |-> machine, status |-> "active",
     last_updated |-> 0, scaling_events |-> <<>>]

InitOn(machines) ==
    /\ \E machine \in machines : current_state = default_state(machine)
    /\ execution_history = <<>>
    /\ now = 0
    /\ event_log = <<>>
    /\ last = [op |-> "init"]
    /\ predictor = DemandPredictor
    /\ metrics_history = <<>>
    /\ files = (config_file :> DumpConfig(config))
    /\ threads = NoThreads

InitManager == InitOn(Machines)

InitEngine ==
    /\ config \in EngineConfigs
    /\ driver = "engine"
    /\ InitManager

NextEngine == DecideSizing \/ DecideCooldown

SpecEngine == InitEngine /\ [][NextEngine]_vars

----------------------------------------------------------------------------
(* Claims about make_scaling_decision, checked under SpecEngine *)

DecisionMade == last.op = "decide"

CooldownVetoed == DecisionMade /\ last.decision.reason[1] = "Cooldown active"

ConfidenceVetoed == DecisionMade /\ last.decision.reason[1] = "Low confidence"

Sized == DecisionMade /\ ~CooldownVetoed /\ ~ConfidenceVetoed

CurrentOf(call) == Get(call.current_state, "current_instances", 1)

TotalsWithinCeilings(resources) ==
    /\ "total_cpu_cores" \in DOMAIN resources
          => resources.total_cpu_cores <= config.resource_limits.cpu_cores
    /\ "total_memory_gb" \in DOMAIN resources
          => resources.total_memory_gb <= config.resource_limits.memory_gb
    /\ "total_storage_gb" \in DOMAIN resources
          => resources.total_storage_gb <= config.resource_limits.storage_gb

\* C1: every decision returned by make_scaling_decision, on the veto paths as on
\* the sizing path and whatever the current state passed in, recommends an
\* instance count in [min_instances, max_instances] and resource totals no
\* greater than the configured ceilings.
C1_DecisionWithinLimits ==
    DecisionMade =>
        /\ config.min_instances <= last.decision.recommended_instances
        /\ last.decision.recommended_instances <= config.max_instances
        /\ TotalsWithinCeilings(last.decision.recommended_resources)

CooldownOf(action) ==
    IF action = "scale_up" THEN config.scale_up_cooldown ELSE config.scale_down_cooldown

WithinCooldown(prior, at) ==
    /\ prior.action \in {"scale_up", "scale_down"}
    /\ at - prior.timestamp < Seconds(CooldownOf(prior.action))

\* Indices of the at most 10 most recent prior decisions that are within their cooldown
ScannedMatches(call) ==
    {i \in 1..Len(call.recent_decisions) :
        /\ i > Len(call.recent_decisions) - 10
        /\ WithinCooldown(call.recent_decisions[i], call.at)}

Newest(indices) == CHOOSE i \in indices : \A j \in indices : j <= i

\* C40: the cooldown gate comes before the confidence gate and does not look at
\* the recommendation: while a cooldown is active every recommendation, maintain,
\* low-confidence and opposite-direction ones included, yields a maintain
\* decision with confidence 1.0 that recommends the current instance count.
C40_CooldownGateFirst ==
    (DecisionMade /\ ScannedMatches(last) # {}) =>
        /\ last.decision.action = "maintain"
        /\ last.decision.confidence = 1000
        /\ last.decision.recommended_instances = CurrentOf(last)
        /\ last.decision.reason[1] = "Cooldown active"

\* C40 witness: a scale_down recommendation with confidence 0.5, made 60 s after
\* a scale_up with scale_up_cooldown 300, came back as the cooldown's maintain
C40_Witness ==
    /\ DecisionMade
    /\ ScannedMatches(last) # {}
    /\ last.recent_decisions[Newest(ScannedMatches(last))].action = "scale_up"
    /\ last.recommendation.action = "scale_down"
    /\ LowConfidence(last.recommendation)
    /\ last.decision.action = "maintain"
    /\ last.decision.confidence = 1000
    /\ last.decision.recommended_instances = CurrentOf(last)

\* a maintain recommendation made while a cooldown is active
C40_MaintainWitness ==
    /\ DecisionMade
    /\ ScannedMatches(last) # {}
    /\ last.recommendation.action = "maintain"
    /\ last.decision.confidence = 1000

\* C7: the newest of the at most 10 most recent prior decisions that is a
\* scale_up younger than scale_up_cooldown or a scale_down younger than
\* scale_down_cooldown makes the decision a maintain whose cooldown_remaining is
\* that cooldown minus that decision's age; when there is none the cooldown gate
\* does not veto.
C7_CooldownGate ==
    DecisionMade =>
        IF ScannedMatches(last) # {}
        THEN LET prior == last.recent_decisions[Newest(ScannedMatches(last))]
             IN  /\ CooldownVetoed
                 /\ last.decision.action = "maintain"
                 /\ last.decision.cooldown_remaining
                        = Seconds(CooldownOf(prior.action)) - (last.at - prior.timestamp)
        ELSE ~CooldownVetoed /\ "cooldown_remaining" \notin DOMAIN last.decision

\* C7 witness: a scale_up 60 s old under scale_up_cooldown = 300 vetoes with 240 s
\* remaining, behind more than 10 prior decisions of which an older one matches too.
C7_Witness ==
    /\ DecisionMade
    /\ config.scale_up_cooldown = 300
    /\ Len(last.recent_decisions) > 10
    /\ Cardinality(ScannedMatches(last)) = 2
    /\ LET prior == last.recent_decisions[Newest(ScannedMatches(last))]
       IN  prior.action = "scale_up" /\ last.at - prior.timestamp = Seconds(60)
    /\ last.decision.action = "maintain"
    /\ last.decision.cooldown_remaining = Seconds(240)

PredictedLoadOf(call) ==
    Get(call.recommendation, "max_predicted_load", Get(call.current_state, "load_score", 50))

Clamped(n) ==
    IF n < config.min_instances THEN config.min_instances
    ELSE IF n > config.max_instances THEN config.max_instances
    ELSE n

\* The sizing rule as the specification words it
StatedTarget(call) ==
    LET current == CurrentOf(call)
        load == PredictedLoadOf(call)
        twice == (2 * load) \div 100
    IN  CASE call.recommendation.action = "scale_up" ->
                current + (IF twice > 1 THEN twice ELSE 1)
          [] call.recommendation.action = "scale_down" ->
                IF load < 20 THEN current - 2
                ELSE IF load < 40 THEN current - 1 ELSE current
          [] OTHER -> current

\* The same, a scale_down that removes instances never going below one instance
FlooredTarget(call) ==
    LET current == CurrentOf(call)
        load == PredictedLoadOf(call)
        removed == IF load < 20 THEN 2 ELSE IF load < 40 THEN 1 ELSE 0
    IN  IF call.recommendation.action = "scale_down" /\ removed > 0
        THEN (IF current - removed < 1 THEN 1 ELSE current - removed)
        ELSE StatedTarget(call)

\* C9 as stated: on the sizing path the recommended count is the stated target
\* (current + max(1, floor(2*load/100)) for scale_up, current - 2 or - 1 or
\* current for scale_down, current for maintain) clamped to
\* [min_instances, max_instances].
C9_TargetAsStated ==
    Sized => last.decision.recommended_instances = Clamped(StatedTarget(last))

\* C9 amended: the same, the scale_down target being max(1, current - 2) or
\* max(1, current - 1) before the clamp.
C9_TargetSizing ==
    Sized => last.decision.recommended_instances = Clamped(FlooredTarget(last))

\* C9 witness: current = 1, max_instances = 3 and a scale_up that asks for +2.
C9_Witness ==
    /\ Sized
    /\ CurrentOf(last) = 1
    /\ config.max_instances = 3
    /\ last.recommendation.action = "scale_up"
    /\ PredictedLoadOf(last) = 100
    /\ last.decision.recommended_instances = 3

\* C32: on the sizing path, with f = maxPredictedLoad/100, the per-instance
\* values are cpu = 2+2f, memory = 4+4f, storage = 20+10f, and each total is the
\* smaller of the configured ceiling and target instances x per-instance value,
\* for the target count as it is before the clamp to [min_instances,
\* max_instances].
C32_ResourceSizing ==
    Sized =>
        LET load == PredictedLoadOf(last)
            target == FlooredTarget(last)
            resources == last.decision.recommended_resources
            cpu == 200 + 2 * load
            memory == 400 + 4 * load
            storage == 2000 + 10 * load
            ceilings == config.resource_limits
        IN  /\ resources.cpu_per_instance = cpu
            /\ resources.memory_per_instance = memory
            /\ resources.storage_per_instance = storage
            /\ resources.total_cpu_cores
                  = (IF target * cpu < ceilings.cpu_cores THEN target * cpu
                     ELSE ceilings.cpu_cores)
            /\ resources.total_memory_gb
                  = (IF target * memory < ceilings.memory_gb THEN target * memory
                     ELSE ceilings.memory_gb)
            /\ resources.total_storage_gb
                  = (IF target * storage < ceilings.storage_gb THEN target * storage
                     ELSE ceilings.storage_gb)

\* C32 witness: three instances, max_instances = 3 and a scale_up at load 60: the
\* decision recommends three instances with the totals of four, all below the
\* ceilings.
C32_Witness ==
    /\ Sized
    /\ CurrentOf(last) = 3
    /\ config.max_instances = 3
    /\ last.recommendation.action = "scale_up"
    /\ PredictedLoadOf(last) = 60
    /\ last.decision.recommended_instances = 3
    /\ last.decision.recommended_resources.total_cpu_cores = 4 * 320
    /\ last.decision.recommended_resources.total_memory_gb = 4 * 640
    /\ last.decision.recommended_resources.total_storage_gb = 4 * 2600

\* C10: in every decision the action is scale_up iff recommended_instances is
\* above the current count, scale_down iff below, maintain iff equal.
C10_ActionFromComparison ==
    DecisionMade =>
        /\ last.decision.action = "scale_up"
              <=> last.decision.recommended_instances > CurrentOf(last)
        /\ last.decision.action = "scale_down"
              <=> last.decision.recommended_instances < CurrentOf(last)
        /\ last.decision.action = "maintain"
              <=> last.decision.recommended_instances = CurrentOf(last)

\* C10 witness: a scale_up recommendation at max_instances is sized to a maintain.
C10_Witness ==
    /\ Sized
    /\ last.recommendation.action = "scale_up"
    /\ CurrentOf(last) = config.max_instances
    /\ last.decision.action = "maintain"

\* C11: when no scanned prior decision is within its cooldown and the
\* recommendation's confidence is strictly below confidence_threshold, the
\* decision is a maintain that recommends the current count and carries the
\* recommendation's confidence unchanged; a confidence equal to or above the
\* threshold is not vetoed by the confidence gate.
C11_ConfidenceGate ==
    (DecisionMade /\ ScannedMatches(last) = {}) =>
        IF last.recommendation.confidence < config.confidence_threshold
        THEN /\ ConfidenceVetoed
             /\ last.decision.action = "maintain"
             /\ last.decision.recommended_instances = CurrentOf(last)
             /\ last.decision.confidence = last.recommendation.confidence
        ELSE ~ConfidenceVetoed

\* C11 witness: a scale_up recommendation of confidence 0.5 with no cooldown
\* running, on three instances, is vetoed to a maintain of three instances with
\* confidence 0.5.
C11_Witness ==
    /\ DecisionMade
    /\ ScannedMatches(last) = {}
    /\ last.recommendation.action = "scale_up"
    /\ last.recommendation.confidence = 500
    /\ config.confidence_threshold = 600
    /\ CurrentOf(last) = 3
    /\ last.decision.action = "maintain"
    /\ last.decision.recommended_instances = 3
    /\ last.decision.confidence = 500

----------------------------------------------------------------------------
(* The manager called on its own: decision records drawn from a bounded set *)

WellFormedDecisions ==
    {[action |-> a, recommended_instances |-> n,
      recommended_resources |-> _calculate_resource_allocation(n, 50), reason |-> "r"] :
        a \in {"scale_up", "scale_down", "maintain"}, n \in {1, 2, 3}}

Without(d, k) == [x \in DOMAIN d \ {k} |-> d[x]]

\* Well-formed decisions, the same with one key missing, and the same with an
\* empty recommended_resources (as rollback_last_scaling builds them)
DecisionInputs ==
    WellFormedDecisions
    \cup {Without(d, k) : d \in WellFormedDecisions,
                              k \in {"action", "recommended_instances",
                                     "recommended_resources", "reason"}}
    \cup {[d EXCEPT !.recommended_resources = EmptyDict] : d \in WellFormedDecisions}

Calls == Len(execution_history)

ExecuteDecision ==
    /\ Calls < MaxCalls
    /\ \E decision \in DecisionInputs : Executes("execute", decision, now, 0)
    /\ UNCHANGED <<config, driver, predictor, metrics_history, threads>>

Rollback ==
    /\ Calls < MaxCalls
    /\ RollbackLastScaling

InitApi ==
    /\ config = default_config
    /\ driver = "api"
    /\ InitManager

NextManager == ExecuteDecision \/ Rollback

SpecManager == InitApi /\ [][NextManager]_vars

----------------------------------------------------------------------------
(* Claims about execute_scaling_decision, checked under SpecManager *)

Executed == last.op \in {"execute", "rollback"} /\ "decision" \in DOMAIN last

ExecutionReturned == Executed /\ ~last.raised

ExecutionFailed == ExecutionReturned /\ last.result.status = "failed"

ExecutionCompleted == ExecutionReturned /\ last.result.status = "completed"

\* The action of the executed decision, "" when the record has none
ExecutedAction == IF Executed THEN Get(last.decision, "action", "") ELSE ""

\* The events the last call appended
NewEvents == SubSeq(event_log, last.logged + 1, Len(event_log))

\* C2: when execute_scaling_decision ends with status = failed, the result has a
\* non-empty errors list and instances, resources and scaling_events are what
\* they were before the call.
C2_FailureLeavesStateUnchanged ==
    ExecutionFailed =>
        /\ last.result.errors # <<>>
        /\ current_state.instances = last.pre.instances
        /\ current_state.resources = last.pre.resources
        /\ current_state.scaling_events = last.pre.scaling_events

\* C3: execute_scaling_decision never raises to its caller, whatever the
\* decision record: a failure is a returned result with status = failed and the
\* error in errors.
C3_ExecuteNeverRaises ==
    Executed =>
        /\ ~last.raised
        /\ last.result.status = "failed" => last.result.errors # <<>>

\* C5: when execute_scaling_decision completes a scale_up or scale_down,
\* instances and resources are the decision's recommended_instances and
\* recommended_resources and exactly one event was appended, whose
\* instances_before is the count before the call and whose instances_after is the
\* count after it.
C5_CompletedScalingApplied ==
    (ExecutionCompleted /\ ExecutedAction \in {"scale_up", "scale_down"}) =>
        /\ current_state.instances = last.decision.recommended_instances
        /\ current_state.resources = last.decision.recommended_resources
        /\ Len(NewEvents) = 1
        /\ NewEvents[1].instances_before = last.pre.instances
        /\ NewEvents[1].instances_after = current_state.instances
        /\ current_state.scaling_events # <<>>
        /\ current_state.scaling_events[Len(current_state.scaling_events)] = NewEvents[1]

\* C5 witness: a completed scale_down that changed the instance count.
C5_Witness ==
    /\ ExecutionCompleted
    /\ last.decision.action = "scale_down"
    /\ last.pre.instances = 3
    /\ current_state.instances = 1
    /\ Len(current_state.scaling_events) = 2

\* C6: execute_scaling_decision with action = maintain leaves instances and
\* resources as they were, whatever the decision recommends, and appends no event
\* whose instances_after differs from its instances_before.
C6_MaintainChangesNothing ==
    ExecutedAction = "maintain" =>
        /\ current_state.instances = last.pre.instances
        /\ current_state.resources = last.pre.resources
        /\ \A i \in 1..Len(NewEvents) :
              NewEvents[i].instances_after = NewEvents[i].instances_before

\* C6 witness: a completed maintain whose decision recommends another count and
\* other resources than the manager holds.
C6_Witness ==
    /\ ExecutionCompleted
    /\ last.decision = [action |-> "maintain", recommended_instances |-> 3,
                        recommended_resources |-> _calculate_resource_allocation(3, 50),
                        reason |-> "r"]
    /\ last.decision.recommended_instances # last.pre.instances
    /\ last.decision.recommended_resources # last.pre.resources
    /\ Len(NewEvents) = 1

\* The event rollback_last_scaling rolled back: the newest one before the call
RolledBack == last.pre.scaling_events[Len(last.pre.scaling_events)]

\* C16: after a completed scale_up or scale_down that took the count from n to
\* m, rollback_last_scaling re-executes a decision that targets n, and when that
\* execution completes the manager holds n instances.
C16_RollbackRestoresCount ==
    (/\ last.op = "rollback"
     /\ ExecutionCompleted
     /\ RolledBack.action \in {"scale_up", "scale_down"}
     /\ RolledBack.instances_after # RolledBack.instances_before) =>
        /\ last.decision.recommended_instances = RolledBack.instances_before
        /\ current_state.instances = RolledBack.instances_before

\* The ids of a list of instance descriptors
IdsOf(descriptors) == {descriptors[i].id : i \in DOMAIN descriptors}

RECURSIVE LiveAfter(_, _)
\* The instances that are live after the first k executions of this manager:
\* instance-1 of the default state, with what the checklists of the executions
\* provisioned and without what they terminated
LiveAfter(history, k) ==
    IF k = 0 THEN {1}
    ELSE LET result == history[k]
         IN  (LiveAfter(history, k - 1)
                 \cup IdsOf(Get(result, "provisioned_instances", <<>>)))
                 \ IdsOf(Get(result, "removed_instances", <<>>))

LiveInstances == LiveAfter(execution_history, Len(execution_history))

\* The ids of a list of descriptors, in the order of the list
IdSequence(descriptors) == [i \in DOMAIN descriptors |-> descriptors[i].id]

\* C25: a completed scale_down from c to t < c terminates instance-c down to
\* instance-(t+1) in that order, a completed scale_up from c to t > c provisions
\* instance-(c+1) up to instance-t, and after any sequence of completed
\* executions the live instances are exactly instance-1 to instance-n for the
\* current count n.
C25_LiveInstancesNumbered ==
    /\ (ExecutionCompleted /\ ExecutedAction = "scale_down"
            /\ last.decision.recommended_instances < last.pre.instances) =>
          IdSequence(last.result.removed_instances)
              = [i \in 1..(last.pre.instances - last.decision.recommended_instances) |->
                    last.pre.instances + 1 - i]
    /\ (ExecutionCompleted /\ ExecutedAction = "scale_up"
            /\ last.decision.recommended_instances > last.pre.instances) =>
          IdSequence(last.result.provisioned_instances)
              = [i \in 1..(last.decision.recommended_instances - last.pre.instances) |->
                    last.pre.instances + i]
    /\ (\A i \in 1..Len(execution_history) : execution_history[i].status = "completed") =>
          LiveInstances = 1..current_state.instances

\* C26: every entry of scaling_events records a completed scale_up or scale_down:
\* a maintain execution, a rollback execution and a failed execution append no
\* event.
C26_EventsAreScalingTransitions ==
    /\ \A i \in 1..Len(current_state.scaling_events) :
          current_state.scaling_events[i].action \in {"scale_up", "scale_down"}
    /\ (ExecutedAction = "maintain" \/ last.op = "rollback" \/ ExecutionFailed) =>
          current_state.scaling_events = last.pre.scaling_events

\* C35: in scaling_events, built by executions that do not overlap, the
\* instances_after of every entry is the instances_before of the next, and the
\* instances_after of the last entry is the count the manager holds.
C35_EventsChain ==
    LET events == current_state.scaling_events
    IN  /\ \A i \in 1..(Len(events) - 1) :
              events[i].instances_after = events[i + 1].instances_before
        /\ events # <<>> => events[Len(events)].instances_after = current_state.instances

----------------------------------------------------------------------------
(* Long runs of the manager: scaling_events beyond its cap of 50 *)

ScalingDecision(action, n) ==
    [action |-> action, recommended_instances |-> n,
     recommended_resources |-> _calculate_resource_allocation(n, 50), reason |-> "r"]

Failures == Len(SelectSeq(execution_history, LAMBDA r : r.status = "failed"))

Maintains == Len(SelectSeq(event_log, LAMBDA e : e.action = "maintain"))

\* A scale_up from one instance to two, or a scale_down back to one
ExecuteAlternating ==
    /\ Len(event_log) < MaxAppended
    /\ Executes("execute",
                IF current_state.instances = 1 THEN ScalingDecision("scale_up", 2)
                ELSE ScalingDecision("scale_down", 1),
                now, 0)
    /\ UNCHANGED <<config, driver, predictor, metrics_history, threads>>

\* A maintain somewhere in the run
ExecuteMaintain ==
    /\ Len(event_log) < MaxAppended
    /\ Failures + Maintains < MaxDetours
    /\ Executes("execute", ScalingDecision("maintain", current_state.instances), now, 0)
    /\ UNCHANGED <<config, driver, predictor, metrics_history, threads>>

\* An execution that fails somewhere in the run
ExecuteFailing ==
    /\ Len(event_log) < MaxAppended
    /\ Failures + Maintains < MaxDetours
    /\ Executes("execute", Without(ScalingDecision("scale_up", 3), "recommended_resources"),
                now, 0)
    /\ UNCHANGED <<config, driver, predictor, metrics_history, threads>>

InitRetention ==
    /\ config = default_config
    /\ driver = "api"
    /\ InitOn({m \in Machines : m.total_cpu_cores = 400})

NextRetention == ExecuteAlternating \/ ExecuteMaintain \/ ExecuteFailing

SpecRetention == InitRetention /\ [][NextRetention]_vars

\* C4: scaling_events never has more than 50 entries, and it is the run of the
\* most recently appended events in the order they were appended; after 55
\* appended events it holds exactly events 6 to 55.
C4_EventsCappedInOrder ==
    /\ Len(current_state.scaling_events) <= 50
    /\ Len(current_state.scaling_events)
          = (IF Len(event_log) < 50 THEN Len(event_log) ELSE 50)
    /\ \A i \in 1..Len(current_state.scaling_events) :
          current_state.scaling_events[i]
              = event_log[Len(event_log) - Len(current_state.scaling_events) + i]
    /\ Len(event_log) = 55 =>
          /\ Len(current_state.scaling_events) = 50
          /\ current_state.scaling_events[1] = event_log[6]
          /\ current_state.scaling_events[50] = event_log[55]

\* C4 witness: 55 events appended, all with different timestamps, the 53rd call
\* (made with 50 events held) having failed.
C4_Witness ==
    /\ Len(event_log) = 55
    /\ Failures = 1
    /\ execution_history[53].status = "failed"
    /\ \A i, j \in 1..55 : i < j => event_log[i].timestamp < event_log[j].timestamp
    /\ Len(current_state.scaling_events) = 50

----------------------------------------------------------------------------
(* The instance count the manager holds, whatever count a decision targets *)

\* Decisions with every key present, for any action and a target count from 0 up
TargetedDecisions ==
    {ScalingDecision(a, n) : a \in {"scale_up", "scale_down", "maintain"}, n \in 0..2}

ExecuteTargeted ==
    /\ Calls < MaxCalls
    /\ \E decision \in TargetedDecisions : Executes("execute", decision, now, 0)
    /\ UNCHANGED <<config, driver, predictor, metrics_history, threads>>

NextFloor == ExecuteTargeted \/ Rollback

SpecFloor == InitApi /\ [][NextFloor]_vars

\* C27: the manager holds at least one instance in every reachable state, after
\* any sequence of execute and rollback calls.
C27_AtLeastOneInstance == current_state.instances >= 1

----------------------------------------------------------------------------
(* predictor.py: the recommendation handed to the engine *)

RECURSIVE Sum(_)
Sum(s) == IF s = <<>> THEN 0 ELSE s[1] + Sum(Tail(s))

MaxOf(s) == CHOOSE x \in {s[i] : i \in 1..Len(s)} : \A i \in 1..Len(s) : s[i] <= x

RuleTrendFirst(n, total, max_predicted_load, trend, current_load) ==
    IF max_predicted_load > 80 THEN 1
    ELSE IF trend > 15 THEN 3
    ELSE IF total < 30 * n /\ current_load < 40 THEN 2
    ELSE IF trend < 0 - 15 THEN 4
    ELSE 5

\* The branch of the if/elif ladder that is taken, 1 to 5.  avg_predicted_load < 30
\* is decided exactly, on the sum of the n predictions.
Rule(n, total, max_predicted_load, trend, current_load) ==
    IF max_predicted_load > 80 THEN 1
    ELSE IF total < 30 * n /\ current_load < 40 THEN 2
    ELSE IF trend > 15 THEN 3
    ELSE IF trend < 0 - 15 THEN 4
    ELSE 5

\* get_scaling_recommendation for integer loads.  predicted_load and the
\* confidence of rule 2 are rounded down to a whole load and a thousandth.
get_scaling_recommendation(predictions, current_load) ==
    IF predictions = <<>>
    THEN [action |-> "maintain", confidence |-> 500, reason |-> "No predictions available"]
    ELSE LET n == Len(predictions)
             total == Sum(predictions)
             max_predicted_load == MaxOf(predictions)
             trend == predictions[n] - current_load
             rule == Rule(n, total, max_predicted_load, trend, current_load)
         IN  [action |-> CASE rule \in {1, 3} -> "scale_up"
                           [] rule \in {2, 4} -> "scale_down"
                           [] OTHER -> "maintain",
              confidence |-> CASE rule = 1 -> Min(900, (max_predicted_load - 80) * 50)
                               [] rule = 2 -> Min(800, ((40 * n - total) * 1000) \div (40 * n))
                               [] rule = 3 -> 700
                               [] rule = 4 -> 600
                               [] OTHER -> 800,
              reason |-> <<"rule", rule>>,
              predicted_load |-> total \div n,
              max_predicted_load |-> max_predicted_load,
              trend |-> trend]

----------------------------------------------------------------------------
(* The recommender called on its own: forecasts drawn from a bounded set *)

PredictionLevels == {0, 20, 30, 55, 80, 90, 100}

LoadLevels == {25, 39, 40, 45, 50}

\* Forecasts of 1 to MaxHorizon steps
PredictionInputs ==
    UNION {[1..n -> PredictionLevels] : n \in 1..MaxHorizon}

Recommend ==
    /\ last.op = "init"
    /\ \E predictions \in PredictionInputs, current_load \in LoadLevels :
          last' = [op |-> "recommend", predictions |-> predictions,
                   current_load |-> current_load,
                   recommendation |->
                       get_scaling_recommendation(predictions, current_load)]
    /\ UNCHANGED <<config, current_state, execution_history, now, driver, event_log,
                 predictor, metrics_history, threads, files>>

InitRecommend ==
    /\ config = default_config
    /\ driver = "predictor"
    /\ InitOn({m \in Machines : m.total_cpu_cores = 400})

NextRecommend == Recommend

SpecRecommend == InitRecommend /\ [][NextRecommend]_vars

Recommended == last.op = "recommend"

\* The first rule of the stated ladder that matches, the comparisons made on the
\* predictions themselves
StatedRule(call) ==
    LET ps == call.predictions
        n == Len(ps)
        above80 == \E i \in 1..n : ps[i] > 80
        avgBelow30 == Sum(ps) < 30 * n
        trend == ps[n] - call.current_load
    IN  CASE above80 -> 1
          [] ~above80 /\ avgBelow30 /\ call.current_load < 40 -> 2
          [] ~above80 /\ ~(avgBelow30 /\ call.current_load < 40) /\ trend > 15 -> 3
          [] ~above80 /\ ~(avgBelow30 /\ call.current_load < 40) /\ trend <= 15
             /\ trend < 0 - 15 -> 4
          [] OTHER -> 5

\* c thousandths is min(cap, num / den) rounded down to a thousandth
IsCappedRatio(c, cap, num, den) ==
    /\ c <= cap
    /\ c * den <= num * 1000
    /\ c = cap \/ (c + 1) * den > num * 1000

\* C12: get_scaling_recommendation decides by the first matching rule of
\* max > 80 (scale_up, min(0.9, (max - 80) / 20)), avg < 30 and currentLoad < 40
\* (scale_down, min(0.8, (40 - avg) / 40)), last - currentLoad > 15 (scale_up,
\* 0.7), last - currentLoad < -15 (scale_down, 0.6), else maintain 0.8; five
\* predictions of 90 with current load 50 give scale_up 0.5, five of 20 with
\* current load 25 give scale_down 0.5; the action is always one of the three
\* and the confidence is in [0, 1].
C12_RuleLadder ==
    Recommended =>
        LET ps == last.predictions
            n == Len(ps)
            r == last.recommendation
            rule == StatedRule(last)
        IN  /\ r.action = (CASE rule \in {1, 3} -> "scale_up"
                             [] rule \in {2, 4} -> "scale_down"
                             [] OTHER -> "maintain")
            /\ rule = 1 => IsCappedRatio(r.confidence, 900, MaxOf(ps) - 80, 20)
            /\ rule = 2 => IsCappedRatio(r.confidence, 800, 40 * n - Sum(ps), 40 * n)
            /\ rule = 3 => r.confidence = 700
            /\ rule = 4 => r.confidence = 600
            /\ rule = 5 => r.confidence = 800
            /\ (ps = <<90, 90, 90, 90, 90>> /\ last.current_load = 50)
                  => (r.action = "scale_up" /\ r.confidence = 500)
            /\ (ps = <<20, 20, 20, 20, 20>> /\ last.current_load = 25)
                  => (r.action = "scale_down" /\ r.confidence = 500)
            /\ r.action \in {"scale_up", "scale_down", "maintain"}
            /\ 0 <= r.confidence /\ r.confidence <= 1000

\* C12 witness: a forecast whose average is below 30 with current load 25 and
\* whose last value rises by 30 is decided by rule 2, not rule 3.
C12_Witness ==
    /\ Recommended
    /\ last.predictions = <<20, 20, 20, 20, 55>>
    /\ last.current_load = 25
    /\ last.recommendation.action = "scale_down"
    /\ last.recommendation.confidence = 325

----------------------------------------------------------------------------
(* predictor.py: training and forecasting.  A sample is its load_score; what   *)
(* pandas and scikit-learn answer on the other fields of the samples is an     *)
(* input of each call.                                                         *)

BaseFeatures ==
    {"hour", "minute", "day_of_week", "cpu_percent", "memory_percent", "response_time_ms"}

\* The lag and rolling columns prepare_time_series_data creates on n samples
LagFeatures(n) ==
    (IF n > 1 + 5 THEN {"load_score_lag_1"} ELSE {})
    \cup (IF n > 2 + 5 THEN {"load_score_lag_2"} ELSE {})
    \cup (IF n > 3 + 5 THEN {"load_score_lag_3"} ELSE {})

RollingFeatures(n) ==
    (IF n > 3 + 5 THEN {"load_score_rolling_3"} ELSE {})
    \cup (IF n > 5 + 5 THEN {"load_score_rolling_5"} ELSE {})

\* What a training pass meets: fewer than 5 complete rows after dropna, a
\* scaler.fit_transform that raises (MinMaxScaler.fit resets the scaler before it
\* validates the data, or the scaler is left as it was), a model.fit that raises,
\* or both fits succeeding
FitOutcomes ==
    {"too_few_rows", "scaler_raises", "scaler_raises_reset", "model_raises", "fitted"}

\* train_model(metrics) on predictor state p: what it returns and the predictor
\* it leaves
train_model(p, metrics, outcome) ==
    IF Len(metrics) < 10 \/ outcome = "too_few_rows"
    THEN [returned |-> FALSE, predictor |-> p]
    ELSE LET pass == p.passes + 1
             columns == BaseFeatures \cup LagFeatures(Len(metrics))
                            \cup RollingFeatures(Len(metrics))
             prepared == [p EXCEPT !.feature_columns = columns,
                                   !.schema_pass = pass, !.passes = pass]
             fit == [fitted |-> TRUE, n_features_in |-> Cardinality(columns),
                     pass |-> pass]
         IN  CASE outcome = "scaler_raises" ->
                    [returned |-> FALSE, predictor |-> prepared]
               [] outcome = "scaler_raises_reset" ->
                    [returned |-> FALSE,
                     predictor |-> [prepared EXCEPT !.scaler = Unfitted]]
               [] outcome = "model_raises" ->
                    [returned |-> FALSE, predictor |-> [prepared EXCEPT !.scaler = fit]]
               [] OTHER ->
                    [returned |-> TRUE,
                     predictor |-> [prepared EXCEPT !.scaler = fit, !.model = fit,
                                                    !.is_trained = TRUE]]

\* max(0, min(100, x))
Bounded(x) == Max(0, Min(100, x))

\* _simple_trend_prediction, the loads rounded down to a whole load
_simple_trend_prediction(recent_metrics, horizon) ==
    IF Len(recent_metrics) < 2 THEN [i \in 1..horizon |-> 50]
    ELSE LET loads == LastN(recent_metrics, 10)
             current_load == loads[Len(loads)]
         IN  [i \in 1..horizon |->
                Bounded((current_load * Len(loads) + (current_load - loads[1]) * i)
                            \div Len(loads))]

\* model.predict on a scaled row returns any number
ModelOutputs == {0 - 20, 40, 130}

\* What one step of the forecasting loop meets: building the frame raises (the
\* outer handler takes over), no complete row is left, extracting the features or
\* predicting raises, or the model answers `value` and _create_synthetic_metric
\* then succeeds or raises
StepOutcomes ==
    {[kind |-> "frame_raises"], [kind |-> "no_rows"], [kind |-> "predict_raises"]}
    \cup {[kind |-> "output", value |-> v, synthetic |-> ok] :
            v \in ModelOutputs, ok \in BOOLEAN}

\* scaler.transform and model.predict accept a row of len(feature_columns) values
Transformable(p) ==
    /\ p.scaler.fitted /\ p.scaler.n_features_in = Cardinality(p.feature_columns)
    /\ p.model.fitted /\ p.model.n_features_in = Cardinality(p.feature_columns)

ModelReadyOnSamples(p, recent_metrics) == Len(recent_metrics) >= 5

\* not (not self.is_trained or len(recent_metrics) < 5)
ModelReady(p, recent_metrics) == p.is_trained /\ Len(recent_metrics) >= 5

RECURSIVE ForecastSteps(_, _, _, _, _, _, _)
\* The for loop of predict_demand from step `step` on (1-based), `predictions`
\* collected and the scaler consulted `consulted` times so far
ForecastSteps(p, recent_metrics, horizon, outcomes, step, predictions, consulted) ==
    IF step > horizon THEN [predictions |-> predictions, consulted |-> consulted]
    ELSE LET o == outcomes[step]
             current_load == recent_metrics[Len(recent_metrics)]
         IN  CASE o.kind = "frame_raises" ->
                    [predictions |-> _simple_trend_prediction(recent_metrics, horizon),
                     consulted |-> consulted]
               [] o.kind \in {"no_rows", "predict_raises"} ->
                    ForecastSteps(p, recent_metrics, horizon, outcomes, step + 1,
                                  Append(predictions, current_load), consulted)
               [] OTHER ->
                    IF ~Transformable(p)
                    THEN ForecastSteps(p, recent_metrics, horizon, outcomes, step + 1,
                                       Append(predictions, current_load), consulted + 1)
                    ELSE IF o.synthetic
                    THEN ForecastSteps(p, recent_metrics, horizon, outcomes, step + 1,
                                       Append(predictions, Bounded(o.value)),
                                       consulted + 1)
                    \* the prediction is appended, then the handler of the step
                    \* appends the current load as well
                    ELSE ForecastSteps(p, recent_metrics, horizon, outcomes, step + 1,
                                       Append(Append(predictions, Bounded(o.value)),
                                              current_load),
                                       consulted + 1)

\* predict_demand(recent_metrics, horizon) on predictor state p
predict_demand(p, recent_metrics, horizon, outcomes) ==
    IF ~ModelReady(p, recent_metrics)
    THEN LET current_load == IF recent_metrics # <<>>
                             THEN recent_metrics[Len(recent_metrics)] ELSE 50
         IN  [predictions |-> [i \in 1..horizon |-> current_load], consulted |-> 0]
    ELSE ForecastSteps(p, recent_metrics, horizon, outcomes, 1, <<>>, 0)

----------------------------------------------------------------------------
(* The forecaster called on its own: one training pass at most, then a forecast *)

Flat(n, load) == [i \in 1..n |-> load]

\* Too few samples to train on, enough for every column but the rolling mean of
\* 5, and enough for all of them
TrainingInputs == {Flat(9, 50), Flat(10, 50), Flat(12, 50)}

\* No sample, too few for the model, just enough, and a falling load
SampleInputs ==
    {<<>>, <<10, 20, 30, 40>>, <<10, 20, 30, 40, 50>>,
     <<100, 100, 90, 80, 70, 60, 50, 40, 30, 20, 10, 5>>}

Train ==
    /\ last.op = "init"
    /\ \E metrics \in TrainingInputs, outcome \in FitOutcomes :
          LET call == train_model(predictor, metrics, outcome)
          IN  /\ predictor' = call.predictor
              /\ last' = [op |-> "train", metrics |-> metrics, outcome |-> outcome,
                          pre |-> predictor, returned |-> call.returned]
    /\ UNCHANGED <<config, current_state, execution_history, now, driver, event_log,
                   metrics_history, threads, files>>

Predict ==
    /\ last.op \in {"init", "train"}
    /\ \E recent_metrics \in SampleInputs, horizon \in 0..MaxSteps :
          \E outcomes \in [1..horizon -> StepOutcomes] :
             LET call == predict_demand(predictor, recent_metrics, horizon, outcomes)
             IN  last' = [op |-> "predict", samples |-> recent_metrics,
                          horizon |-> horizon, outcomes |-> outcomes,
                          result |-> call.predictions, consulted |-> call.consulted]
    /\ UNCHANGED <<config, current_state, execution_history, now, driver, event_log,
                   predictor, metrics_history, threads, files>>

InitPredict ==
    /\ config = default_config
    /\ driver = "predictor"
    /\ InitOn({m \in Machines : m.total_cpu_cores = 400})

NextPredict == Train \/ Predict

SpecPredict == InitPredict /\ [][NextPredict]_vars

Predicted == last.op = "predict"

\* The forecast was made by a trained predictor on at least 5 samples
ForecastByModel == Predicted /\ predictor.is_trained /\ Len(last.samples) >= 5

CurrentLoadOf(call) == call.samples[Len(call.samples)]

\* C13: a trained predictor given samples with loads in [0, 100] returns exactly
\* horizon values, each in [0, 100], whatever the model outputs and whichever
\* steps fail; unless the whole forecast fell back to the trend, a step that
\* failed holds the current load and every other step holds the model's bounded
\* output.
C13_ForecastLengthAndRange ==
    ForecastByModel =>
        /\ Len(last.result) = last.horizon
        /\ \A i \in 1..Len(last.result) : 0 <= last.result[i] /\ last.result[i] <= 100
        /\ (\A i \in 1..last.horizon : last.outcomes[i].kind # "frame_raises") =>
              \A i \in 1..last.horizon :
                 IF last.outcomes[i].kind = "output"
                 THEN last.result[i] = Bounded(last.outcomes[i].value)
                 ELSE last.result[i] = CurrentLoadOf(last)

\* C14: an untrained predictor, or one given fewer than 5 samples, returns the
\* load of the last sample repeated horizon times and never consults the model.
C14_FallbackRepeatsLastLoad ==
    (Predicted /\ (~predictor.is_trained \/ Len(last.samples) < 5)) =>
        /\ last.consulted = 0
        /\ Len(last.result) = last.horizon
        /\ last.samples # <<>> =>
              \A i \in 1..last.horizon : last.result[i] = CurrentLoadOf(last)

\* C14 witness: a trained predictor given 4 samples and asked for 3 steps, the
\* model ready to answer 130 at each, returns the last load three times.
C14_Witness ==
    /\ Predicted
    /\ predictor.is_trained
    /\ last.samples = <<10, 20, 30, 40>>
    /\ last.horizon = 3
    /\ \A i \in 1..3 : last.outcomes[i].kind = "output" /\ last.outcomes[i].value = 130
    /\ last.result = <<40, 40, 40>>
    /\ last.consulted = 0

----------------------------------------------------------------------------
(* predictor.py: anomaly detection *)

anomaly_threshold == 2

SumOfSquares(s) == Sum([i \in 1..Len(s) |-> s[i] * s[i]])

\* loads[i-window_size:i] for the load at place i, counted from 1
Window(loads, i, window_size) == SubSeq(loads, i - window_size, i - 1)

IsAnomalyAtThreshold(window, value) ==
    LET n == Len(window)
        S == Sum(window)
        Q == SumOfSquares(window)
    IN  /\ n * Q - S * S > 0
        /\ (n * value - S) * (n * value - S)
              >= anomaly_threshold * anomaly_threshold * (n * Q - S * S)

\* std_val > 0 and abs(value - mean_val) / std_val > anomaly_threshold, decided
\* exactly: with n = len(window), S its sum and Q its sum of squares,
\* mean = S / n and std^2 = (n*Q - S^2) / n^2
IsAnomaly(window, value) ==
    LET n == Len(window)
        S == Sum(window)
        Q == SumOfSquares(window)
    IN  /\ n * Q - S * S > 0
        /\ (n * value - S) * (n * value - S)
              > anomaly_threshold * anomaly_threshold * (n * Q - S * S)

detect_anomalies(recent_metrics, window_size) ==
    IF Len(recent_metrics) < window_size
    THEN [i \in 1..Len(recent_metrics) |-> FALSE]
    ELSE [i \in 1..Len(recent_metrics) |->
            IF i - 1 < window_size THEN FALSE
            ELSE IsAnomaly(Window(recent_metrics, i, window_size), recent_metrics[i])]

AnomalyLevels == {50, 52, 53, 100}

Detect ==
    /\ last.op = "init"
    /\ \E n \in 0..MaxSamples, window_size \in 1..MaxWindow :
          \E recent_metrics \in [1..n -> AnomalyLevels] :
             last' = [op |-> "detect", samples |-> recent_metrics,
                      window_size |-> window_size,
                      flags |-> detect_anomalies(recent_metrics, window_size)]
    /\ UNCHANGED <<config, current_state, execution_history, now, driver, event_log,
                   predictor, metrics_history, threads, files>>

InitAnomalies ==
    /\ config = default_config
    /\ driver = "predictor"
    /\ InitOn({m \in Machines : m.total_cpu_cores = 400})

NextAnomalies == Detect

SpecAnomalies == InitAnomalies /\ [][NextAnomalies]_vars

Detected == last.op = "detect"

\* The w loads before place i of the call's samples
PrecedingLoads(call, i) ==
    [k \in 1..call.window_size |-> call.samples[i - call.window_size + k - 1]]

\* Sum over the window of (w * load - sum)^2, which is w^3 times its variance
ScaledSquaredDeviations(window) ==
    LET w == Len(window)
    IN  Sum([k \in 1..w |-> (w * window[k] - Sum(window)) * (w * window[k] - Sum(window))])

\* |load - mean| > 2 * stdev of the window, both sides squared and scaled by w^3
DeviatesByMoreThanTwoSigma(window, load) ==
    LET w == Len(window)
    IN  w * (w * load - Sum(window)) * (w * load - Sum(window))
            > 4 * ScaledSquaredDeviations(window)

----------------------------------------------------------------------------
(* main.py and dashboard.py: the pipeline around one manager *)

scaling_interval == 300

\* Forecasts of predict_demand(recent_metrics, horizon=5): flat at a few levels
Forecasts == {[i \in 1..5 |-> level] : level \in {5, 85, 100}}

CurrentLoads == {20}

\* Seconds between two requests to /api/scaling/execute: short, and early in the run
\* long enough for the scale_up cooldown to pass
RequestGaps ==
    IF now < MaxLongGaps * Seconds(scaling_interval) THEN {10, scaling_interval} ELSE {10}

PipelineState(current_load) ==
    [current_instances |-> current_state.instances,
     load_score |-> current_load,
     current_resources |-> current_state.resources]

\* dashboard.py execute_scaling: decide from the manager's history, then execute
\* whatever was decided
ManualExecute ==
    /\ driver = "dashboard"
    /\ Calls < MaxRequests
    /\ \E predictions \in Forecasts, current_load \in CurrentLoads, gap \in RequestGaps :
          LET at == now + Seconds(gap)
              recommendation == get_scaling_recommendation(predictions, current_load)
              decision == make_scaling_decision(PipelineState(current_load), recommendation,
                                                get_scaling_history(5), at)
          IN  Executes("manual", decision, at, 0)
    /\ UNCHANGED <<config, driver, predictor, metrics_history, threads>>

\* main.py _scaling_decision_loop, one iteration with enough metrics: sleep, decide
\* from the manager's history, execute unless the decision is maintain, sleep
LoopCycle ==
    /\ driver = "loop"
    /\ now < MaxCycles * Seconds(2 * scaling_interval)
    /\ \E predictions \in Forecasts, current_load \in CurrentLoads :
          LET at == now + Seconds(scaling_interval)
              recommendation == get_scaling_recommendation(predictions, current_load)
              decision == make_scaling_decision(PipelineState(current_load), recommendation,
                                                get_scaling_history(5), at)
          IN  IF decision.action # "maintain"
              THEN Executes("loop", decision, at, Seconds(scaling_interval))
              ELSE /\ last' = [op |-> "loop", decision |-> decision, pre |-> current_state,
                               logged |-> Len(event_log), at |-> at, raised |-> FALSE,
                               result |-> [status |-> "skipped"]]
                   /\ now' = at + Seconds(scaling_interval)
                   /\ UNCHANGED <<current_state, execution_history, event_log, files>>
    /\ UNCHANGED <<config, driver, predictor, metrics_history, threads>>

\* rollback_last_scaling called on the pipeline's manager
PipelineRollback ==
    /\ Calls < MaxRequests
    /\ last.op # "rollback"
    /\ RollbackLastScaling

Init ==
    /\ config = default_config
    /\ driver \in {"loop", "dashboard"}
    /\ InitOn({m \in Machines : m.total_cpu_cores = 400})

Next == ManualExecute \/ LoopCycle \/ PipelineRollback

Spec == Init /\ [][Next]_vars

----------------------------------------------------------------------------
(* The pipeline under scaling_config.json files with narrow instance limits *)

\* scaling_config.json as an operator may write it: limits close enough for a
\* sized target to fall outside them on either side, cooldowns of a minute
LimitConfigs ==
    {[default_config EXCEPT !.min_instances = 2, !.max_instances = 3,
                            !.scale_up_cooldown = 60, !.scale_down_cooldown = 60]}

\* ResourceManager._load_state: the state of resource_state.json, whose instance
\* count is the configured minimum
InitLimits ==
    /\ config \in LimitConfigs
    /\ driver \in {"loop", "dashboard"}
    /\ \E machine \in {m \in Machines : m.total_cpu_cores = 400} :
          current_state = [default_state(machine) EXCEPT !.instances = config.min_instances]
    /\ execution_history = <<>>
    /\ now = 0
    /\ event_log = <<>>
    /\ last = [op |-> "init"]
    /\ predictor = DemandPredictor
    /\ metrics_history = <<>>
    /\ files = (config_file :> DumpConfig(config))
    /\ threads = NoThreads

SpecLimits == InitLimits /\ [][Next]_vars

----------------------------------------------------------------------------
(* Claims about the pipeline, checked under Spec *)

\* C38: with an unchanged configuration and an initial instance count inside
\* [min_instances, max_instances], the instance count stays inside
\* [min_instances, max_instances] after any sequence of pipeline cycles.
C38_InstancesWithinLimits ==
    /\ config.min_instances <= current_state.instances
    /\ current_state.instances <= config.max_instances

\* C38 witness: a scale_up sized above max_instances was executed at the limit,
\* and the count had been below the limit before
C38_Witness ==
    /\ last.op \in {"manual", "loop"}
    /\ last.decision.action = "scale_up"
    /\ ~last.raised
    /\ last.result.status = "completed"
    /\ last.pre.instances < config.max_instances
    /\ current_state.instances = config.max_instances
    /\ last.pre.instances + AdditionalInstances(last.decision.max_predicted_load)
           > config.max_instances

CompletedAt(i, action) ==
    /\ execution_history[i].status = "completed"
    /\ execution_history[i].action = action

\* C8: two executed scale_up actions are never less than scale_up_cooldown
\* seconds apart and two executed scale_down actions never less than
\* scale_down_cooldown seconds apart, whatever is executed in between.
C8_CooldownBetweenExecutions ==
    \A i, j \in 1..Len(execution_history) :
        \A action \in {"scale_up", "scale_down"} :
            (i < j /\ CompletedAt(i, action) /\ CompletedAt(j, action)) =>
                execution_history[j].timestamp - execution_history[i].timestamp
                    >= Seconds(CooldownOf(action))

----------------------------------------------------------------------------
(* dashboard.py: requests to /api/scaling/execute served by concurrent threads *)
(* of the development server, on the one module-level ResourceManager.       *)
(* A call of execute_scaling_decision is three steps here: it takes its       *)
(* snapshot, it reads the instance count and runs the checklist (sleeping),   *)
(* and it updates the state.                                                  *)

RequestThreads == 1..MaxThreads

Idle == [pc |-> "idle"]

Done == [pc |-> "done"]

\* execute_scaling up to the call of execute_scaling_decision: forecast,
\* recommendation and decision from the state and history as they are now
RequestDecides(t) ==
    /\ threads[t].pc = "idle"
    /\ \E predictions \in Forecasts, current_load \in CurrentLoads :
          LET recommendation == get_scaling_recommendation(predictions, current_load)
              decision == make_scaling_decision(PipelineState(current_load), recommendation,
                                                get_scaling_history(5), now)
          IN  threads' = [threads EXCEPT ![t] = [pc |-> "decided", decision |-> decision]]
    /\ UNCHANGED <<config, current_state, execution_history, now, driver, event_log,
                   last, predictor, metrics_history, files>>

\* execute_scaling_decision, up to the try: the timestamp and the result record
\* with its copy of the state
ExecuteBegins(t) ==
    /\ threads[t].pc = "decided"
    /\ LET decision == threads[t].decision
           started ==
              [timestamp |-> now,
               action |-> decision.action,
               status |-> "started",
               execution_time_seconds |-> _simulate_scaling_time(decision.action),
               previous_state |-> Snapshot(current_state),
               errors |-> <<>>,
               warnings |-> <<>>]
       IN  threads' = [threads EXCEPT ![t] =
                          [pc |-> "dispatch", decision |-> decision, started |-> started]]
    /\ UNCHANGED <<config, current_state, execution_history, now, driver, event_log,
                   last, predictor, metrics_history, files>>

\* _scale_up, _scale_down or _maintain_resources: reads the instance count, then
\* sleeps through the checklist
ExecuteDispatches(t) ==
    /\ threads[t].pc = "dispatch"
    /\ LET step == Dispatch(threads[t].decision)
       IN  threads' = [threads EXCEPT ![t] =
                          [pc |-> "update", decision |-> threads[t].decision,
                           started |-> threads[t].started, step |-> step,
                           wakes |-> now + step.elapsed]]
    /\ UNCHANGED <<config, current_state, execution_history, now, driver, event_log,
                   last, predictor, metrics_history, files>>

\* After the checklist: _update_state on the state as it is now, the result
\* appended to execution_history, _save_state
ExecuteUpdates(t) ==
    /\ threads[t].pc = "update"
    /\ LET decision == threads[t].decision
           step == threads[t].step
           completed == [step.result @@ threads[t].started EXCEPT !.status = "completed"]
           updated == _update_state(current_state, decision, completed)
           execution_result ==
              IF ~step.ok
              THEN Failed(threads[t].started, step.error)
              ELSE IF ~updated.ok
              THEN Failed(completed, updated.error)
              ELSE completed
           after == IF step.ok THEN updated.state ELSE current_state
           ends == Max(now, threads[t].wakes)
       IN  /\ current_state' = [after EXCEPT !.last_updated = ends]
           /\ execution_history' = Append(execution_history, execution_result)
           /\ event_log' = IF step.ok /\ updated.ok
                           THEN Append(event_log, updated.event) ELSE event_log
           /\ now' = ends
           /\ files' = _save_state(files, [after EXCEPT !.last_updated = ends])
           /\ last' = [op |-> "request", thread |-> t, decision |-> decision,
                       result |-> execution_result]
           /\ threads' = [threads EXCEPT ![t] = Done]
    /\ UNCHANGED <<config, driver, predictor, metrics_history>>

\* The next request arrives later
RequestArrives ==
    /\ now < Seconds(MaxArrival)
    /\ now' = now + Seconds(10)
    /\ UNCHANGED <<config, current_state, execution_history, driver, event_log,
                   last, predictor, metrics_history, threads, files>>

InitRequests ==
    /\ config = default_config
    /\ driver = "dashboard"
    /\ \E machine \in {m \in Machines : m.total_cpu_cores = 400} :
          current_state = default_state(machine)
    /\ execution_history = <<>>
    /\ now = 0
    /\ event_log = <<>>
    /\ last = [op |-> "init"]
    /\ predictor = DemandPredictor
    /\ metrics_history = <<>>
    /\ files = (config_file :> DumpConfig(config))
    /\ threads = [t \in RequestThreads |-> Idle]

NextRequests ==
    \/ \E t \in RequestThreads :
          \/ RequestDecides(t)
          \/ ExecuteBegins(t)
          \/ ExecuteDispatches(t)
          \/ ExecuteUpdates(t)
    \/ RequestArrives

SpecRequests == InitRequests /\ [][NextRequests]_vars

\* Thread t is between taking its snapshot and having updated the state
InExecute(t) == threads[t].pc \in {"dispatch", "update"}

\* C36: every scaling event with action scale_up has instances_after above
\* instances_before and every one with action scale_down has it below, also when
\* the decision was made from a count older than the one the manager holds when
\* it is executed.
C36_EventsFollowTheirAction ==
    \A i \in 1..Len(current_state.scaling_events) :
        LET event == current_state.scaling_events[i]
        IN  /\ event.action = "scale_up" => event.instances_after > event.instances_before
            /\ event.action = "scale_down" => event.instances_after < event.instances_before

\* C17: two execute_scaling_decision calls on the same manager never
\* interleave: while one call is between reading the state (its snapshot) and
\* having updated instances, resources and the event log, no other call is.
C17_ExecutionsNeverInterleave ==
    \A t1, t2 \in DOMAIN threads :
        (t1 # t2 /\ InExecute(t1)) => ~InExecute(t2)

----------------------------------------------------------------------------
(* dashboard.py: requests to /api/predictions served by concurrent threads on *)
(* the one module-level DemandPredictor.  train_model is four steps here:      *)
(* prepare_time_series_data sets feature_columns, scaler.fit_transform,        *)
(* model.fit, is_trained = True; predict_demand reads the predictor at each    *)
(* step of its loop.                                                           *)

\* /api/metrics stores one more sample
MetricsStored ==
    /\ Len(metrics_history) < MaxStored
    /\ metrics_history' = Append(metrics_history, 50)
    /\ UNCHANGED <<config, current_state, execution_history, now, driver, event_log,
                   last, predictor, threads, files>>

\* get_predictions up to the call of train_model or predict_demand
PredictionsRequested(t) ==
    /\ threads[t].pc = "idle"
    /\ LET recent_metrics == LastN(metrics_history, 30)
       IN  threads' = [threads EXCEPT ![t] =
              IF Len(recent_metrics) < 10 THEN Done
              ELSE IF ~predictor.is_trained
              THEN [pc |-> "train", metrics |-> recent_metrics]
              ELSE [pc |-> "predict", metrics |-> recent_metrics]]
    /\ UNCHANGED <<config, current_state, execution_history, now, driver, event_log,
                   last, predictor, metrics_history, files>>

\* train_model: prepare_time_series_data returns nothing, or sets feature_columns
TrainPrepares(t) ==
    /\ threads[t].pc = "train"
    /\ \E enough_rows \in BOOLEAN :
          IF Len(threads[t].metrics) < 10 \/ ~enough_rows
          THEN /\ threads' = [threads EXCEPT ![t] = Done]
               /\ UNCHANGED predictor
          ELSE LET n == Len(threads[t].metrics)
                   columns == BaseFeatures \cup LagFeatures(n) \cup RollingFeatures(n)
                   pass == predictor.passes + 1
               IN  /\ predictor' = [predictor EXCEPT !.feature_columns = columns,
                                                      !.schema_pass = pass,
                                                      !.passes = pass]
                   /\ threads' = [threads EXCEPT ![t] =
                                     [pc |-> "scale", metrics |-> threads[t].metrics,
                                      pass |-> pass, width |-> Cardinality(columns)]]
    /\ UNCHANGED <<config, current_state, execution_history, now, driver, event_log,
                   last, metrics_history, files>>

\* train_model: self.scaler.fit_transform(X)
TrainScales(t) ==
    /\ threads[t].pc = "scale"
    /\ \E outcome \in {"fitted", "scaler_raises", "scaler_raises_reset"} :
          CASE outcome = "fitted" ->
                 /\ predictor' = [predictor EXCEPT !.scaler =
                                     [fitted |-> TRUE, n_features_in |-> threads[t].width,
                                      pass |-> threads[t].pass]]
                 /\ threads' = [threads EXCEPT ![t].pc = "fit"]
            [] outcome = "scaler_raises" ->
                 /\ threads' = [threads EXCEPT ![t] = Done]
                 /\ UNCHANGED predictor
            [] OTHER ->
                 /\ predictor' = [predictor EXCEPT !.scaler = Unfitted]
                 /\ threads' = [threads EXCEPT ![t] = Done]
    /\ UNCHANGED <<config, current_state, execution_history, now, driver, event_log,
                   last, metrics_history, files>>

\* train_model: self.model.fit(X_scaled, y)
TrainFits(t) ==
    /\ threads[t].pc = "fit"
    /\ \E raises \in BOOLEAN :
          IF raises
          THEN /\ threads' = [threads EXCEPT ![t] = Done]
               /\ UNCHANGED predictor
          ELSE /\ predictor' = [predictor EXCEPT !.model =
                                   [fitted |-> TRUE, n_features_in |-> threads[t].width,
                                    pass |-> threads[t].pass]]
               /\ threads' = [threads EXCEPT ![t].pc = "mark"]
    /\ UNCHANGED <<config, current_state, execution_history, now, driver, event_log,
                   last, metrics_history, files>>

\* train_model: self.is_trained = True, and back in get_predictions
TrainMarks(t) ==
    /\ threads[t].pc = "mark"
    /\ predictor' = [predictor EXCEPT !.is_trained = TRUE]
    /\ threads' = [threads EXCEPT ![t] = [pc |-> "predict", metrics |-> threads[t].metrics]]
    /\ UNCHANGED <<config, current_state, execution_history, now, driver, event_log,
                   last, metrics_history, files>>

\* predict_demand: the test of is_trained and of the number of samples
PredictBegins(t) ==
    /\ threads[t].pc = "predict"
    /\ threads' = [threads EXCEPT ![t] =
          IF ModelReady(predictor, threads[t].metrics)
          THEN [pc |-> "forecast", metrics |-> threads[t].metrics, step |-> 1]
          ELSE Done]
    /\ UNCHANGED <<config, current_state, execution_history, now, driver, event_log,
                   last, predictor, metrics_history, files>>

\* predict_demand: one step of the loop, on the predictor as it is now
PredictSteps(t) ==
    /\ threads[t].pc = "forecast"
    /\ last' = [op |-> "forecast", thread |-> t, step |-> threads[t].step,
                transformable |-> Transformable(predictor),
                passes |-> <<predictor.schema_pass, predictor.scaler.pass,
                             predictor.model.pass>>]
    /\ threads' = [threads EXCEPT ![t] =
          IF threads[t].step >= MaxSteps THEN Done
          ELSE [threads[t] EXCEPT !.step = @ + 1]]
    /\ UNCHANGED <<config, current_state, execution_history, now, driver, event_log,
                   predictor, metrics_history, files>>

InitModelRace ==
    /\ config = default_config
    /\ driver = "dashboard"
    /\ \E machine \in {m \in Machines : m.total_cpu_cores = 400} :
          current_state = default_state(machine)
    /\ execution_history = <<>>
    /\ now = 0
    /\ event_log = <<>>
    /\ last = [op |-> "init"]
    /\ predictor = DemandPredictor
    /\ metrics_history = Flat(9, 50)
    /\ files = (config_file :> DumpConfig(config))
    /\ threads = [t \in RequestThreads |-> Idle]

NextModelRace ==
    \/ MetricsStored
    \/ \E t \in RequestThreads :
          \/ PredictionsRequested(t)
          \/ TrainPrepares(t)
          \/ TrainScales(t)
          \/ TrainFits(t)
          \/ TrainMarks(t)
          \/ PredictBegins(t)
          \/ PredictSteps(t)

SpecModelRace == InitModelRace /\ [][NextModelRace]_vars

\* Thread t is inside train_model, having replaced some of the predictor's
\* schema, statistics and parameters and not yet finished
Retraining(t) == threads[t].pc \in {"scale", "fit", "mark"}

\* Thread t is inside the loop of predict_demand
Forecasting(t) == threads[t].pc = "forecast"

\* C18: a train_model call is exclusive with every concurrent predict_demand
\* and train_model call on the same predictor: while one thread is partway
\* through replacing the schema, the statistics and the parameters, no other
\* thread is training or forecasting.
C18_TrainingExclusive ==
    \A t1, t2 \in DOMAIN threads :
        (t1 # t2 /\ Retraining(t1)) => (~Retraining(t2) /\ ~Forecasting(t2))

----------------------------------------------------------------------------
(* main.py: the orchestrator's two daemon threads, the sampling loop and the   *)
(* decision loop, and the main thread that stops them.  Each thread keeps the  *)
(* time at which its sleep ends; the threads are scheduled freely.             *)

collection_interval == 60

Running == threads["main"].pc = "running"

RunnableInTurn(t) ==
    /\ threads[t].pc # "stopped"
    /\ \A u \in {"metrics", "scaling"} \ {t} :
          threads[u].pc \in {"sleep", "wait", "done", "stopped"}

\* start_monitoring gives each loop a thread of its own: a loop that has not
\* ended can take its next step whatever the other loop is doing
Runnable(t) == threads[t].pc # "stopped"

\* stop_monitoring, on KeyboardInterrupt
Stops ==
    /\ Running
    /\ threads' = [threads EXCEPT !["main"] = [pc |-> "stopped"]]
    /\ UNCHANGED <<config, current_state, execution_history, now, driver, event_log,
                   last, predictor, metrics_history, files>>

\* store_metrics: append, keep the last 1000
StoreMetrics(history, metrics) ==
    IF Len(history) + 1 > 1000 THEN LastN(Append(history, metrics), 1000)
    ELSE Append(history, metrics)

\* _metrics_collection_loop: collect_metrics (one second of cpu_percent) and
\* store_metrics, then into the sleep
MetricsCollects ==
    /\ Runnable("metrics")
    /\ threads["metrics"].pc = "collect"
    /\ Len(metrics_history) < MaxSampled
    /\ \E load_score \in CurrentLoads :
          metrics_history' = StoreMetrics(metrics_history, load_score)
    /\ threads' = [threads EXCEPT !["metrics"] =
                      [pc |-> "sleep",
                       wakes |-> threads["metrics"].wakes
                                    + Seconds(1 + collection_interval)]]
    /\ now' = Max(now, threads["metrics"].wakes + Seconds(1))
    /\ last' = [op |-> "sample", during |-> threads["scaling"].pc]
    /\ UNCHANGED <<config, current_state, execution_history, driver, event_log,
                   predictor, files>>

\* _metrics_collection_loop: the sleep ends and `while self.running` is tested
MetricsWakes ==
    /\ Runnable("metrics")
    /\ threads["metrics"].pc = "sleep"
    /\ threads' = [threads EXCEPT !["metrics"].pc =
                      IF Running THEN "collect" ELSE "stopped"]
    /\ now' = Max(now, threads["metrics"].wakes)
    /\ UNCHANGED <<config, current_state, execution_history, driver, event_log,
                   last, predictor, metrics_history, files>>

\* _scaling_decision_loop: the sleep ends; with fewer than 5 samples the loop
\* starts over, otherwise it forecasts and decides, and a decision other than
\* maintain is handed to execute_scaling_decision
ScalingDecides ==
    /\ Runnable("scaling")
    /\ threads["scaling"].pc = "wait"
    /\ threads["scaling"].wakes < MaxRounds * Seconds(2 * scaling_interval)
    /\ LET at == Max(now, threads["scaling"].wakes)
           recent_metrics == LastN(metrics_history, 30)
       IN  /\ now' = at
           /\ IF ~Running
              THEN threads' = [threads EXCEPT !["scaling"] = [pc |-> "stopped"]]
              ELSE IF Len(recent_metrics) < 5
              THEN threads' = [threads EXCEPT !["scaling"] =
                                 [pc |-> "wait", wakes |-> at + Seconds(scaling_interval)]]
              ELSE \E predictions \in Forecasts :
                      LET current_load == recent_metrics[Len(recent_metrics)]
                          recommendation ==
                              get_scaling_recommendation(predictions, current_load)
                          decision ==
                              make_scaling_decision(PipelineState(current_load),
                                                    recommendation,
                                                    get_scaling_history(5), at)
                      IN  threads' = [threads EXCEPT !["scaling"] =
                                        IF decision.action # "maintain"
                                        THEN [pc |-> "decided", decision |-> decision]
                                        ELSE Done]
    /\ UNCHANGED <<config, current_state, execution_history, driver, event_log,
                   last, predictor, metrics_history, files>>

\* _scaling_decision_loop: the sleep that ends an iteration and the one that
\* begins the next
ScalingCycleEnds ==
    /\ Runnable("scaling")
    /\ threads["scaling"].pc = "done"
    /\ threads' = [threads EXCEPT !["scaling"] =
                      [pc |-> "wait", wakes |-> now + Seconds(2 * scaling_interval)]]
    /\ UNCHANGED <<config, current_state, execution_history, now, driver, event_log,
                   last, predictor, metrics_history, files>>

InitOrchestrator ==
    /\ config = default_config
    /\ driver = "loop"
    /\ \E machine \in {m \in Machines : m.total_cpu_cores = 400} :
          current_state = default_state(machine)
    /\ execution_history = <<>>
    /\ now = 0
    /\ event_log = <<>>
    /\ last = [op |-> "init"]
    /\ predictor = DemandPredictor
    /\ metrics_history = <<>>
    /\ files = (config_file :> DumpConfig(config))
    /\ threads = [t \in {"main", "metrics", "scaling"} |->
                    CASE t = "main" -> [pc |-> "running"]
                      [] t = "metrics" -> [pc |-> "collect", wakes |-> 0]
                      [] OTHER -> [pc |-> "wait", wakes |-> Seconds(scaling_interval)]]

NextOrchestrator ==
    \/ Stops
    \/ MetricsCollects
    \/ MetricsWakes
    \/ ScalingDecides
    \/ (Runnable("scaling") /\ ExecuteBegins("scaling"))
    \/ (Runnable("scaling") /\ ExecuteDispatches("scaling"))
    \/ (Runnable("scaling") /\ ExecuteUpdates("scaling"))
    \/ ScalingCycleEnds

\* Each loop runs in a thread of its own that the scheduler keeps running: a
\* sample that can be taken is taken, a sleep that has ended returns
SpecOrchestrator ==
    /\ InitOrchestrator
    /\ [][NextOrchestrator]_vars
    /\ WF_vars(MetricsCollects)
    /\ WF_vars(MetricsWakes)

\* The sampling loop is about to collect and the decision loop is inside
\* execute_scaling_decision
SamplingDuringExecution ==
    /\ threads["metrics"].pc = "collect"
    /\ Len(metrics_history) < MaxSampled
    /\ threads["scaling"].pc \in {"decided", "dispatch", "update"}

\* C19: the sampling loop is never blocked by the decision loop: while the
\* decision loop is inside a scaling execution the sampling loop can take and
\* store its sample, and under fair scheduling every stored sample is followed
\* by another one for as long as the system runs.
C19_SamplingNeverBlocked ==
    /\ [](SamplingDuringExecution => ENABLED MetricsCollects)
    /\ \A k \in 0..(MaxSampled - 1) :
          (Running /\ Len(metrics_history) = k)
              ~> (Len(metrics_history) > k \/ ~Running)

\* C19 witness: a sample was stored while the decision loop was between the
\* checklist of a scale_up and the update of the state.
C19_Witness ==
    /\ last.op = "sample"
    /\ last.during = "update"
    /\ threads["scaling"].pc = "update"
    /\ threads["scaling"].decision.action = "scale_up"
    /\ Len(metrics_history) >= 6

----------------------------------------------------------------------------
(* predictor.py: one predictor trained again and again, each call on its own   *)
(* samples and meeting its own outcome.                                        *)

TrainCalls == IF last.op = "train" THEN last.calls ELSE 0

Retrain ==
    /\ TrainCalls < MaxTrainings
    /\ \E metrics \in TrainingInputs, outcome \in FitOutcomes :
          LET call == train_model(predictor, metrics, outcome)
          IN  /\ predictor' = call.predictor
              /\ last' = [op |-> "train", metrics |-> metrics, outcome |-> outcome,
                          pre |-> predictor, returned |-> call.returned,
                          calls |-> TrainCalls + 1]
    /\ UNCHANGED <<config, current_state, execution_history, now, driver, event_log,
                   metrics_history, threads, files>>

InitTrain == InitPredict

NextTrain == Retrain

SpecTrain == InitTrain /\ [][NextTrain]_vars

\* The feature schema, the normalization statistics and the fit parameters of p
\* are those of training pass n.  The schemas prepare_time_series_data builds
\* grow with the number of samples, so two of one size are the same schema.
FromOnePass(p, n) ==
    /\ p.scaler.fitted /\ p.scaler.pass = n
    /\ p.model.fitted /\ p.model.pass = n
    /\ Cardinality(p.feature_columns) = p.scaler.n_features_in

\* What a trained predictor forecasts with
Parameters(p) ==
    [is_trained |-> p.is_trained, feature_columns |-> p.feature_columns,
     scaler |-> p.scaler, model |-> p.model]

\* C20: a trained predictor's feature schema, normalization statistics and fit
\* parameters come from one successful training pass; a train_model call that
\* fails on a trained predictor leaves the three and is_trained as they were,
\* and one that fails on a never-trained predictor leaves it untrained.
C20_TrainedFromOnePass ==
    /\ predictor.is_trained =>
          \E n \in 1..predictor.passes : FromOnePass(predictor, n)
    /\ (last.op = "train" /\ ~last.returned) =>
          IF last.pre.is_trained
          THEN Parameters(predictor) = Parameters(last.pre)
          ELSE ~predictor.is_trained

----------------------------------------------------------------------------
(* resource_manager.py: the state document across processes.  A process       *)
(* executes decisions, the document may be lost or damaged while no process   *)
(* holds it, and a fresh ResourceManager loads what it finds.                 *)

Process == threads["main"].process

\* The state document is there and is a JSON object
DocumentIntact == state_file \in DOMAIN files /\ files[state_file].type = "object"

\* The file is deleted, is cut short by an interrupted write, or is replaced by
\* JSON that is not an object
DocumentDamaged ==
    /\ DocumentIntact
    /\ \/ files' = [f \in DOMAIN files \ {state_file} |-> files[f]]
       \/ files' = [files EXCEPT ![state_file] = Truncated]
       \/ files' = [files EXCEPT ![state_file] = JsonNumber(0)]
    /\ UNCHANGED <<config, current_state, execution_history, now, driver, event_log,
                   last, predictor, metrics_history, threads>>

\* Decisions a process executes: a scale_up and a scale_down the engine could
\* have made, a maintain, and two that fail, before and after _update_state has
\* replaced the instances
StoredDecisions ==
    {ScalingDecision("scale_up", 3), ScalingDecision("scale_down", 2),
     ScalingDecision("maintain", 1),
     Without(ScalingDecision("scale_up", 4), "recommended_resources"),
     Without(ScalingDecision("scale_up", 5), "reason")}

\* execute_scaling_decision; a later process is given fewer calls
ExecuteStored ==
    /\ Calls + Process < MaxCalls
    /\ \E decision \in StoredDecisions : Executes("execute", decision, now, 0)
    /\ UNCHANGED <<config, driver, predictor, metrics_history, threads>>

\* ResourceManager() in a new process, on any host
Restart ==
    /\ Process < MaxRestarts
    /\ \E machine \in Machines :
          /\ current_state' = _load_state(files, machine, now)
          /\ last' = [op |-> "load", pre |-> current_state, machine |-> machine,
                      intact |-> DocumentIntact, at |-> now]
    /\ execution_history' = <<>>
    /\ threads' = [threads EXCEPT !["main"].process = @ + 1]
    /\ UNCHANGED <<config, now, driver, event_log, predictor, metrics_history, files>>

InitPersistence ==
    /\ config = default_config
    /\ driver = "api"
    /\ \E machine \in Machines : current_state = default_state(machine)
    /\ execution_history = <<>>
    /\ now = 0
    /\ event_log = <<>>
    /\ last = [op |-> "init"]
    /\ predictor = DemandPredictor
    /\ metrics_history = <<>>
    /\ files = (config_file :> DumpConfig(config))
    /\ threads = [t \in {"main"} |-> [pc |-> "running", process |-> 0]]

NextPersistence == ExecuteStored \/ DocumentDamaged \/ Restart

SpecPersistence == InitPersistence /\ [][NextPersistence]_vars

Loaded == last.op = "load"

\* The fields of ResourceState other than last_updated
Persisted(state) ==
    [k \in DOMAIN state \ {"last_updated"} |-> state[k]]

\* C21: a fresh ResourceManager that finds the state document the last execute
\* wrote holds the instances, resources, status and scaling_events (every event,
\* in order) of the manager that wrote it; one that finds no document, or one
\* that does not load, holds the built-in default state.
C21_StateRoundTrip ==
    Loaded =>
        IF last.intact
        THEN /\ Persisted(current_state) = Persisted(last.pre)
             /\ DOMAIN current_state = DOMAIN last.pre
        ELSE current_state =
                [instances |-> 1, resources |-> last.machine, status |-> "active",
                 last_updated |-> last.at, scaling_events |-> <<>>]

\* C21 witness: a manager on another host loads the document of one that
\* scaled up to 3 instances and back down, events and resources included.
C21_Witness ==
    /\ Loaded /\ last.intact
    /\ current_state.instances = 2
    /\ Len(current_state.scaling_events) = 2
    /\ current_state.scaling_events[1].action = "scale_up"
    /\ current_state.scaling_events[2].action = "scale_down"
    /\ current_state.resources # last.machine

----------------------------------------------------------------------------
(* resource_manager.py: calls of execute_scaling_decision by one caller, each  *)
(* taken step by step, on any decision record.                                 *)

\* The caller calls execute_scaling_decision(decision); without an action the
\* call raises before there is a result
CallArrives(t) ==
    /\ threads[t].pc = "idle"
    /\ Calls < MaxCalls
    /\ \E decision \in DecisionInputs :
          threads' = [threads EXCEPT ![t] =
                         IF "action" \in DOMAIN decision
                         THEN [pc |-> "decided", decision |-> decision]
                         ELSE [pc |-> "raised"]]
    /\ UNCHANGED <<config, current_state, execution_history, now, driver, event_log,
                   last, predictor, metrics_history, files>>

\* The call is over and the caller may call again
CallReturns(t) ==
    /\ threads[t].pc \in {"done", "raised"}
    /\ threads' = [threads EXCEPT ![t] = Idle]
    /\ UNCHANGED <<config, current_state, execution_history, now, driver, event_log,
                   last, predictor, metrics_history, files>>

InitExecution ==
    /\ config = default_config
    /\ driver = "api"
    /\ \E machine \in {m \in Machines : m.total_cpu_cores = 400} :
          current_state = default_state(machine)
    /\ execution_history = <<>>
    /\ now = 0
    /\ event_log = <<>>
    /\ last = [op |-> "init"]
    /\ predictor = DemandPredictor
    /\ metrics_history = <<>>
    /\ files = (config_file :> DumpConfig(config))
    /\ threads = [t \in {"caller"} |-> Idle]

NextExecution ==
    \/ CallArrives("caller")
    \/ ExecuteBegins("caller")
    \/ ExecuteDispatches("caller")
    \/ ExecuteUpdates("caller")
    \/ CallReturns("caller")

\* The calling thread keeps running: a step of the call that can be taken is
\* taken, every sleep of the checklists returns
SpecExecution ==
    /\ InitExecution
    /\ [][NextExecution]_vars
    /\ WF_vars(ExecuteBegins("caller"))
    /\ WF_vars(ExecuteDispatches("caller"))
    /\ WF_vars(ExecuteUpdates("caller"))

\* The call of the caller has a result record and has not returned it
InProgress == threads["caller"].pc \in {"decided", "dispatch", "update"}

\* C22: every call of execute_scaling_decision that has begun its result ends,
\* and the result it returns, like every result in execution_history, has
\* status completed or failed, never started.
C22_ExecutionEnds ==
    /\ [](\A i \in 1..Len(execution_history) :
            execution_history[i].status \in {"completed", "failed"})
    /\ []((last.op = "request" /\ threads["caller"].pc = "done") =>
            /\ last.result.status \in {"completed", "failed"}
            /\ last.result = execution_history[Len(execution_history)])
    /\ (InProgress ~> threads["caller"].pc = "done")

\* C22 witness: a scale_up whose checklist raised has returned, failed.
C22_Witness ==
    /\ threads["caller"].pc = "done"
    /\ last.op = "request"
    /\ last.decision.action = "scale_up"
    /\ last.result.status = "failed"
    /\ last.result.errors # <<>>

----------------------------------------------------------------------------
(* scaling_engine.py: the configuration document, edited by hand between runs *)
(* and loaded by each new ScalingEngine.                                      *)

\* Any subset of three recognized keys, of the three resource_limits sub-keys
\* and of one key the engine does not know
ConfigDocuments ==
    {JsonObject(a @@ b @@ c @@ d) :
        a \in Optional("max_instances", {JsonNumber(5)}),
        b \in Optional("scale_up_cooldown", {JsonNumber(60)}),
        c \in Optional("region", {JsonNumber(7)}),
        d \in Optional("resource_limits",
                {JsonObject(x @@ y @@ z) :
                    x \in Optional("cpu_cores", {JsonNumber(800)}),
                    y \in Optional("memory_gb", {JsonNumber(1600)}),
                    z \in Optional("storage_gb", {JsonNumber(10000)})})}

\* The document is written by hand, is cut short, or is deleted
ConfigEdited ==
    /\ last.op # "edit"
    /\ \/ \E document \in ConfigDocuments \cup {Truncated} :
             files' = (config_file :> document) @@ files
       \/ files' = [f \in DOMAIN files \ {config_file} |-> files[f]]
    /\ last' = [op |-> "edit"]
    /\ UNCHANGED <<config, current_state, execution_history, now, driver, event_log,
                   predictor, metrics_history, threads>>

\* ScalingEngine()
LoadConfig ==
    /\ LET loaded == _load_config(files)
       IN  /\ config' = loaded.config
           /\ files' = loaded.files
    /\ last' = [op |-> "load_config", found |-> config_file \in DOMAIN files]
                @@ (IF config_file \in DOMAIN files
                    THEN [document |-> files[config_file]] ELSE EmptyDict)
    /\ UNCHANGED <<current_state, execution_history, now, driver, event_log,
                   predictor, metrics_history, threads>>

InitConfig == InitEngine

NextConfig == ConfigEdited \/ LoadConfig

SpecConfig == InitConfig /\ [][NextConfig]_vars

\* The engine was built on a configuration document that parsed
ConfigLoaded ==
    /\ last.op = "load_config"
    /\ last.found
    /\ last.document.type = "object"

\* The value a document supplies for a key, or the built-in default
SuppliedOrDefault(supplied, defaults, k) ==
    IF k \in DOMAIN supplied THEN supplied[k] ELSE defaults[k]

\* C23: after loading a configuration document, every recognized key and every
\* resource_limits sub-key holds the supplied value or the built-in default,
\* every unrecognized key of the document is kept, and the merged configuration
\* is what the file holds.
C23_ConfigMergedOverDefaults ==
    ConfigLoaded =>
        LET supplied == json_load(last.document)
            limits == IF "resource_limits" \in DOMAIN supplied
                      THEN supplied.resource_limits ELSE EmptyDict
        IN  /\ \A k \in DOMAIN default_config \ {"resource_limits"} :
                  /\ k \in DOMAIN config
                  /\ config[k] = SuppliedOrDefault(supplied, default_config, k)
            /\ "resource_limits" \in DOMAIN config
            /\ \A r \in DOMAIN default_config.resource_limits :
                  /\ r \in DOMAIN config.resource_limits
                  /\ config.resource_limits[r] =
                        SuppliedOrDefault(limits, default_config.resource_limits, r)
            /\ \A k \in DOMAIN supplied \ DOMAIN default_config :
                  k \in DOMAIN config /\ config[k] = supplied[k]
            /\ files[config_file] = DumpConfig(config)

----------------------------------------------------------------------------
(* resource_manager.py: the uptime figures reported between executions *)

\* execute_scaling_decision on a scale_up to two instances or a scale_down back
\* to one, on a maintain, or on a decision that fails
ExecuteCounted ==
    /\ Calls < MaxCounted
    /\ \E decision \in
            {IF current_state.instances = 1 THEN ScalingDecision("scale_up", 2)
             ELSE ScalingDecision("scale_down", 1),
             ScalingDecision("maintain", current_state.instances),
             Without(ScalingDecision("scale_up", 3), "recommended_resources")} :
          Executes("execute", decision, now, 0)
    /\ UNCHANGED <<config, driver, predictor, metrics_history, threads>>

\* get_current_state(), its uptime entry
ReportStatus ==
    /\ last.op # "status"
    /\ last' = [op |-> "status", uptime |-> _calculate_uptime]
    /\ UNCHANGED <<config, current_state, execution_history, now, driver, event_log,
                   predictor, metrics_history, threads, files>>

InitUptime == InitRetention

NextUptime == ExecuteCounted \/ ReportStatus

SpecUptime == InitUptime /\ [][NextUptime]_vars

Reported == last.op = "status"

\* C24: the reported success rate is (scaling events - failed executions) /
\* scaling events, to the nearest hundredth of a percent, and 100% when there
\* are no scaling events, however many executions failed.
C24_SuccessRate ==
    Reported =>
        LET total == Len(current_state.scaling_events)
            failed == Failures
            reported == last.uptime.success_rate_percent
            distance == reported * total - 10000 * (total - failed)
        IN  /\ last.uptime.total_scaling_events = total
            /\ last.uptime.failed_events = failed
            /\ total = 0 => reported = 10000
            /\ total > 0 => (2 * distance <= total /\ 2 * (0 - distance) <= total)

\* C37: the reported success rate is between 0% and 100% after any sequence of
\* completed and failed executions, also with more failed executions than
\* scaling events held and with failures and no event.
C37_SuccessRateInRange ==
    Reported =>
        /\ 0 <= last.uptime.success_rate_percent
        /\ last.uptime.success_rate_percent <= 10000

\* C24 witness: three scaling events and one failed execution, reported as
\* 66.67%.
C24_Witness ==
    /\ Reported
    /\ last.uptime.total_scaling_events = 3
    /\ last.uptime.failed_events = 1
    /\ last.uptime.success_rate_percent = 6667

----------------------------------------------------------------------------
(* scaling_engine.py: what a call of make_scaling_decision leaves behind *)

DecisionCallRecording(cs, recommendation, recent_decisions, at) ==
    LET decision == make_scaling_decision(cs, recommendation, recent_decisions, at)
    IN  [decision |-> decision, current_state |-> cs, recommendation |-> recommendation,
         recent_decisions |-> Append(recent_decisions, decision)]

\* A call of make_scaling_decision at time `at`: the decision it returns, a new
\* record, and the caller's three objects as they are when it returns.  The
\* method and its helpers read their arguments with [] and .get, slice the list
\* (recent_decisions[-10:]) and assign to no key of them.
DecisionCall(cs, recommendation, recent_decisions, at) ==
    [decision |-> make_scaling_decision(cs, recommendation, recent_decisions, at),
     current_state |-> cs, recommendation |-> recommendation,
     recent_decisions |-> recent_decisions]

\* Snapshots as the callers build them, and an empty one
SnapshotInputs ==
    {EmptyDict}
    \cup {[current_instances |-> n, load_score |-> 50, current_resources |-> m] :
            n \in {1, 3}, m \in Machines}

RecentInputs ==
    {<<>>,
     <<[action |-> "scale_up", timestamp |-> now - Seconds(60)]>>,
     <<[action |-> "scale_down", timestamp |-> now - Seconds(600)],
       [action |-> "maintain", timestamp |-> now - Seconds(10)]>>}

\* The first call on a snapshot, a recommendation and a list of prior decisions
DecideOnce ==
    /\ last.op = "init"
    /\ \E cs \in SnapshotInputs, rec \in RecommendationInputs, recent \in RecentInputs :
          LET call == DecisionCall(cs, rec, recent, now)
          IN  last' = [op |-> "decide", at |-> now, config |-> config,
                       pre |-> current_state,
                       given |-> [current_state |-> cs, recommendation |-> rec,
                                  recent_decisions |-> recent],
                       held |-> [current_state |-> call.current_state,
                                 recommendation |-> call.recommendation,
                                 recent_decisions |-> call.recent_decisions],
                       decisions |-> <<call.decision>>]
    /\ UNCHANGED <<config, current_state, execution_history, now, driver, event_log,
                 predictor, metrics_history, threads, files>>

\* One more call at the same clock time, on the same three objects as the calls
\* before it left them
DecideAgain ==
    /\ last.op = "decide"
    /\ Len(last.decisions) <= MaxRepeats
    /\ LET call == DecisionCall(last.held.current_state, last.held.recommendation,
                            last.held.recent_decisions, now)
       IN  last' = [last EXCEPT
                       !.held = [current_state |-> call.current_state,
                                 recommendation |-> call.recommendation,
                                 recent_decisions |-> call.recent_decisions],
                       !.decisions = Append(@, call.decision)]
    /\ UNCHANGED <<config, current_state, execution_history, now, driver, event_log,
                 predictor, metrics_history, threads, files>>

NextPure == DecideOnce \/ DecideAgain

SpecPure == InitEngine /\ [][NextPure]_vars

----------------------------------------------------------------------------
(* predictor.py: forecasts running side by side on one predictor and one list  *)
(* of samples, each call one thread, one action per pass of its loop           *)

Rising(n) == [i \in 1..n |-> 20 + 2 * i]

Falling(n) == [i \in 1..n |-> 60 - 3 * i]

\* The list the callers pass: just enough samples for the model, one short of
\* 15, exactly 15, and more
ForecastSamples == {<<10, 20, 30, 40, 50>>, Rising(14), Rising(15), Falling(16)}

\* A fitted LinearRegression is a fixed linear function of the newest complete
\* row of the frame, whose columns come from the newest samples of the window:
\* here the line through the two newest loads
ModelAnswer(last_metrics) ==
    2 * last_metrics[Len(last_metrics)] - last_metrics[Len(last_metrics) - 1]

LoopBodyOnCallersList(p, recent_metrics, last_metrics) ==
    IF Transformable(p)
    THEN LET prediction == Bounded(ModelAnswer(last_metrics))
         IN  [prediction |-> prediction,
              recent_metrics |-> Append(recent_metrics, prediction),
              last_metrics |-> Append(last_metrics, prediction)]
    ELSE [prediction |-> recent_metrics[Len(recent_metrics)],
          recent_metrics |-> recent_metrics, last_metrics |-> last_metrics]

\* One pass of the for loop of predict_demand: the value appended to
\* predictions, and the caller's list and the window after it.  When transform
\* or predict raises the handler of the step appends the caller's last load.
LoopBody(p, recent_metrics, last_metrics) ==
    IF Transformable(p)
    THEN LET prediction == Bounded(ModelAnswer(last_metrics))
         IN  [prediction |-> prediction,
              recent_metrics |-> recent_metrics,
              \* last_metrics.append(synthetic_metric)
              last_metrics |-> Append(last_metrics, prediction)]
    ELSE [prediction |-> recent_metrics[Len(recent_metrics)],
          recent_metrics |-> recent_metrics, last_metrics |-> last_metrics]

\* The horizons asked for: one step, and the longest
Horizons == {1, MaxSteps}

\* predict_demand up to the loop: the fallback, or last_metrics = recent_metrics[-15:]
ForecastCalled(t) ==
    /\ last.op = "train"
    /\ threads[t] = Idle
    /\ \E horizon \in Horizons :
          threads' = [threads EXCEPT ![t] =
             IF ModelReady(predictor, metrics_history)
             THEN [pc |-> "forecast", horizon |-> horizon, step |-> 1,
                   last_metrics |-> LastN(metrics_history, 15), predictions |-> <<>>]
             ELSE [pc |-> "done", horizon |-> horizon,
                   predictions |-> predict_demand(predictor, metrics_history, horizon,
                                                  <<>>).predictions]]
    /\ UNCHANGED <<config, current_state, execution_history, now, driver, event_log,
                   last, predictor, metrics_history, files>>

\* One pass of the loop of thread t, and the return after the last one
ForecastPass(t) ==
    /\ threads[t].pc = "forecast"
    /\ LET pass == LoopBody(predictor, metrics_history, threads[t].last_metrics)
       IN  /\ metrics_history' = pass.recent_metrics
           /\ threads' = [threads EXCEPT ![t] =
                 [pc |-> IF threads[t].step >= threads[t].horizon
                         THEN "done" ELSE "forecast",
                  horizon |-> threads[t].horizon,
                  step |-> threads[t].step + 1,
                  last_metrics |-> pass.last_metrics,
                  predictions |-> Append(threads[t].predictions, pass.prediction)]]
    /\ UNCHANGED <<config, current_state, execution_history, now, driver, event_log,
                   last, predictor, files>>

InitForecasts ==
    /\ config = default_config
    /\ driver = "dashboard"
    /\ \E machine \in {m \in Machines : m.total_cpu_cores = 400} :
          current_state = default_state(machine)
    /\ execution_history = <<>>
    /\ now = 0
    /\ event_log = <<>>
    /\ last = [op |-> "init"]
    /\ predictor = DemandPredictor
    /\ metrics_history \in ForecastSamples
    /\ files = (config_file :> DumpConfig(config))
    /\ threads = [t \in RequestThreads |-> Idle]

NextForecasts ==
    \/ Train
    \/ \E t \in RequestThreads : ForecastCalled(t) \/ ForecastPass(t)

SpecForecasts == InitForecasts /\ [][NextForecasts]_vars

RECURSIVE ForecastAlone(_, _, _, _, _)
\* The loop of one call running with no other call beside it
ForecastAlone(p, recent_metrics, last_metrics, horizon, predictions) ==
    IF Len(predictions) >= horizon THEN predictions
    ELSE LET pass == LoopBody(p, recent_metrics, last_metrics)
         IN  ForecastAlone(p, pass.recent_metrics, pass.last_metrics, horizon,
                           Append(predictions, pass.prediction))

\* What predict_demand(recent_metrics, horizon) returns when it runs alone
PredictAlone(p, recent_metrics, horizon) ==
    IF ~ModelReady(p, recent_metrics)
    THEN predict_demand(p, recent_metrics, horizon, <<>>).predictions
    ELSE ForecastAlone(p, recent_metrics, LastN(recent_metrics, 15), horizon, <<>>)

InForecast(t) == threads[t].pc \in {"forecast", "done"}

\* What the forecasts have returned or collected so far is what each call
\* collects when it runs alone on the predictor and the list as they are
ForecastsAsAlone ==
    \A t \in RequestThreads :
        InForecast(t) =>
            LET alone == PredictAlone(predictor, metrics_history, threads[t].horizon)
                mine == threads[t].predictions
            IN  /\ Len(mine) <= Len(alone)
                /\ mine = SubSeq(alone, 1, Len(mine))
                /\ threads[t].pc = "done" => mine = alone

\* A step of a forecast leaves the predictor and the caller's list as they were
ForecastReadsOnly ==
    (\E t \in RequestThreads : threads'[t] # threads[t]) =>
        /\ predictor' = predictor
        /\ metrics_history' = metrics_history

C30_WindowAtMost15 ==
    \A t \in RequestThreads :
        threads[t].pc = "forecast" => Len(threads[t].last_metrics) <= 15

----------------------------------------------------------------------------
(* predictor.py: the row of features a step of predict_demand hands to the     *)
(* scaler and the model, after any run of training passes                      *)

\* Every column prepare_time_series_data can put in feature_columns, in the
\* order it puts them there
FeatureOrder ==
    <<"hour", "minute", "day_of_week", "cpu_percent", "memory_percent",
      "response_time_ms", "load_score_lag_1", "load_score_lag_2", "load_score_lag_3",
      "load_score_rolling_3", "load_score_rolling_5">>

\* int(feature.split('_')[-1]) of a lag or rolling column
ShiftOf ==
    [load_score_lag_1 |-> 1, load_score_lag_2 |-> 2, load_score_lag_3 |-> 3,
     load_score_rolling_3 |-> 3, load_score_rolling_5 |-> 5]

\* The list self.feature_columns of predictor p
SchemaList(p) == SelectSeq(FeatureOrder, LAMBDA c : c \in p.feature_columns)

\* The columns of the frame a step builds from a window of n samples: those of
\* the samples and of the timestamp, and each lag or rolling column of the
\* schema for which len(df) > its shift
FrameColumns(p, n) ==
    BaseFeatures \cup {c \in p.feature_columns \ BaseFeatures : n > ShiftOf[c]}

FeatureValuesOfFrame(p, n) ==
    LET present == SelectSeq(SchemaList(p), LAMBDA c : c \in FrameColumns(p, n))
    IN  [i \in 1..Len(present) |-> [column |-> present[i], filled |-> FALSE]]

\* feature_values of a step on a window of n samples: one entry for every column
\* of the schema, 0.0 filled in for a column the frame does not have
FeatureValues(p, n) ==
    LET schema == SchemaList(p)
    IN  [i \in 1..Len(schema) |->
            [column |-> schema[i], filled |-> schema[i] \notin FrameColumns(p, n)]]

\* The list a pass of prepare_time_series_data on n samples assigns to
\* feature_columns
PinnedBy(n) ==
    <<"hour", "minute", "day_of_week", "cpu_percent", "memory_percent",
      "response_time_ms">>
    \o (IF n > 1 + 5 THEN <<"load_score_lag_1">> ELSE <<>>)
    \o (IF n > 2 + 5 THEN <<"load_score_lag_2">> ELSE <<>>)
    \o (IF n > 3 + 5 THEN <<"load_score_lag_3">> ELSE <<>>)
    \o (IF n > 3 + 5 THEN <<"load_score_rolling_3">> ELSE <<>>)
    \o (IF n > 5 + 5 THEN <<"load_score_rolling_5">> ELSE <<>>)

\* The training passes and steps so far, and the schema the last pass that got
\* to the assignment pinned
Passes == IF "calls" \in DOMAIN last THEN last.calls ELSE 0

Pinned == IF "pinned" \in DOMAIN last THEN last.pinned ELSE <<>>

\* train_model on some samples, meeting some outcome
TrainPass ==
    /\ Passes < MaxTrainings
    /\ \E metrics \in TrainingInputs, outcome \in FitOutcomes :
          LET call == train_model(predictor, metrics, outcome)
          IN  /\ predictor' = call.predictor
              /\ last' = [op |-> "train", calls |-> Passes + 1,
                          returned |-> call.returned,
                          pinned |-> IF call.predictor.passes > predictor.passes
                                     THEN PinnedBy(Len(metrics)) ELSE Pinned]
    /\ UNCHANGED <<config, current_state, execution_history, now, driver, event_log,
                   metrics_history, threads, files>>

\* The window lengths of a forecast: 5 samples, 6, and the 15 it starts from
\* when there are enough
WindowLengths == {5, 6, 15}

\* One step of predict_demand on a trained predictor, up to feature_values
BuildsFeatures ==
    /\ last.op = "train"
    /\ predictor.is_trained
    /\ \E n \in WindowLengths :
          last' = [op |-> "features", calls |-> Passes, pinned |-> Pinned,
                   window |-> n, feature_values |-> FeatureValues(predictor, n),
                   transformable |-> Transformable(predictor)]
    /\ UNCHANGED <<config, current_state, execution_history, now, driver, event_log,
                   predictor, metrics_history, threads, files>>

NextSchema == TrainPass \/ BuildsFeatures

SpecSchema == InitPredict /\ [][NextSchema]_vars

\* C31: at every step of predict_demand the feature vector has exactly the
\* features pinned by the last training pass, in the same order and number,
\* whatever the length of the window; the schema the predictor holds is the
\* pinned one.
C31_FeaturesAsPinned ==
    /\ predictor.is_trained => SchemaList(predictor) = Pinned
    /\ last.op = "features" =>
          /\ Len(last.feature_values) = Len(last.pinned)
          /\ \A i \in 1..Len(last.pinned) :
                last.feature_values[i].column = last.pinned[i]

\* C31 witness: the last pass pinned 11 columns on 12 samples, and a step on a
\* window of 5 samples, too short for the rolling mean of 5, hands over 11
\* values, the last one filled in.
C31_Witness ==
    /\ last.op = "features"
    /\ last.window = 5
    /\ Len(last.pinned) = 11
    /\ Len(last.feature_values) = 11
    /\ last.feature_values[11] = [column |-> "load_score_rolling_5", filled |-> TRUE]
    /\ last.transformable

----------------------------------------------------------------------------
(* scaling_engine.py: evaluate_scaling_effectiveness.  Scores are in            *)
(* ten-thousandths, loads are whole numbers, and an average is kept as twice    *)
(* its value, which is whole for the one or two samples given here.             *)

Abs(x) == IF x < 0 THEN 0 - x ELSE x

\* Twice sum(actual_loads) / len(actual_loads), for one or two loads
TwiceAverage(actual_loads) == (2 * Sum(actual_loads)) \div Len(actual_loads)

\* max(0, 1 - prediction_error / 100), the error given in halves
AccuracyScore(twice_error) == Max(0, 10000 - 50 * twice_error)

\* effectiveness_score
Appropriateness(action, twice_average) ==
    IF action = "scale_up"
    THEN (IF twice_average > 140 THEN 9000 ELSE IF twice_average > 100 THEN 7000 ELSE 3000)
    ELSE IF action = "scale_down"
    THEN (IF twice_average < 60 THEN 9000 ELSE IF twice_average < 100 THEN 7000 ELSE 3000)
    ELSE (IF 60 <= twice_average /\ twice_average <= 140 THEN 8000 ELSE 4000)

\* The errors (in halves) and appropriateness scores for which the double
\* (accuracy_score + effectiveness_score) / 2 is 0.6000000000000001 where the
\* exact value is 0.6: (0.8 + 0.4) / 2, (0.4 + 0.8) / 2 and (0.3 + 0.9) / 2 with
\* the accuracy computed as 1 - error / 100.  For no other error that is a
\* multiple of 0.5 does the double fall on the other side of 0.8, 0.6 or 0.4
\* than the exact value.
RoundedAbove == {<<40, 4000, 6000>>, <<120, 8000, 6000>>, <<140, 9000, 6000>>}

\* overall_score > threshold, as the doubles compare
Exceeds(twice_error, appropriateness, threshold) ==
    \/ (AccuracyScore(twice_error) + appropriateness) \div 2 > threshold
    \/ <<twice_error, appropriateness, threshold>> \in RoundedAbove

\* round(x, 2) of a score in ten-thousandths, in hundredths; a score halfway
\* between two hundredths goes to the even one
Hundredths(x) ==
    LET floor == x \div 100
        rest == x - 100 * floor
    IN  IF rest > 50 \/ (rest = 50 /\ floor % 2 = 1) THEN floor + 1 ELSE floor

\* evaluate_scaling_effectiveness(decision, actual_metrics), the samples given
\* by their loads
evaluate_scaling_effectiveness(decision, actual_loads) ==
    IF actual_loads = <<>> THEN [effectiveness |-> "unknown", score |-> 50]
    ELSE LET predicted_load == Get(decision, "predicted_load", 50)
             twice_average == TwiceAverage(actual_loads)
             twice_error == Abs(2 * predicted_load - twice_average)
             accuracy_score == AccuracyScore(twice_error)
             effectiveness_score == Appropriateness(decision.action, twice_average)
             overall_score == (accuracy_score + effectiveness_score) \div 2
         IN  [effectiveness |->
                 IF Exceeds(twice_error, effectiveness_score, 8000) THEN "excellent"
                 ELSE IF Exceeds(twice_error, effectiveness_score, 6000) THEN "good"
                 ELSE IF Exceeds(twice_error, effectiveness_score, 4000) THEN "fair"
                 ELSE "poor",
              score |-> Hundredths(overall_score),
              prediction_accuracy |-> Hundredths(accuracy_score),
              decision_appropriateness |-> Hundredths(effectiveness_score),
              predicted_load |-> predicted_load,
              twice_actual_avg_load |-> twice_average,
              twice_prediction_error |-> twice_error]

\* Decisions of every action, with a predicted load or, as the vetoed ones, none
EvaluatedDecisions ==
    {[action |-> a, reason |-> "r"] @@ m :
        a \in {"scale_up", "scale_down", "maintain"},
        m \in Optional("predicted_load", {20, 70, 100})}

\* The loads of the samples seen after the decision: none, one or two
ActualInputs ==
    {<<>>, <<0>>, <<40>>, <<60>>, <<80>>, <<100>>, <<20, 40>>, <<30, 31>>, <<79, 80>>}

Evaluate ==
    /\ last.op = "init"
    /\ \E decision \in EvaluatedDecisions, actual_loads \in ActualInputs :
          last' = [op |-> "evaluate", decision |-> decision, actual |-> actual_loads,
                   result |-> evaluate_scaling_effectiveness(decision, actual_loads)]
    /\ UNCHANGED <<config, current_state, execution_history, now, driver, event_log,
                 predictor, metrics_history, threads, files>>

NextEffectiveness == Evaluate

SpecEffectiveness == InitApi /\ [][NextEffectiveness]_vars

\* C33: evaluate_scaling_effectiveness returns score = (accuracy +
\* appropriateness) / 2, accuracy = max(0, 1 - |predicted - actualAvg| / 100),
\* appropriateness from the table (scale_up: 0.9 above 70, 0.7 above 50, else
\* 0.3; scale_down: 0.9 below 30, 0.7 below 50, else 0.3; maintain: 0.8 from 30
\* to 70, else 0.4), labelled excellent when the score is above 0.8, good above
\* 0.6, fair above 0.4, else poor; with no samples it returns unknown and 0.5.
\* The returned score is the score to the nearest hundredth.
C33_EffectivenessScore ==
    last.op = "evaluate" =>
        IF last.actual = <<>>
        THEN last.result = [effectiveness |-> "unknown", score |-> 50]
        ELSE LET predicted == Get(last.decision, "predicted_load", 50)
                 average2 == (2 * Sum(last.actual)) \div Len(last.actual)
                 distance2 == IF 2 * predicted > average2 THEN 2 * predicted - average2
                              ELSE average2 - 2 * predicted
                 accuracy == IF distance2 > 200 THEN 0 ELSE 10000 - 50 * distance2
                 action == last.decision.action
                 appropriateness ==
                    CASE action = "scale_up" ->
                            (IF average2 > 140 THEN 9000
                             ELSE IF average2 > 100 THEN 7000 ELSE 3000)
                      [] action = "scale_down" ->
                            (IF average2 < 60 THEN 9000
                             ELSE IF average2 < 100 THEN 7000 ELSE 3000)
                      [] OTHER ->
                            (IF average2 >= 60 /\ average2 <= 140 THEN 8000 ELSE 4000)
                 twice_score == accuracy + appropriateness
             IN  /\ last.result.effectiveness
                       = (IF twice_score > 16000 THEN "excellent"
                          ELSE IF twice_score > 12000 THEN "good"
                          ELSE IF twice_score > 8000 THEN "fair" ELSE "poor")
                 /\ 200 * last.result.score - twice_score <= 100
                 /\ twice_score - 200 * last.result.score <= 100

----------------------------------------------------------------------------
(* metrics_collector.py: the load score of a sample.  Percentages are whole     *)
(* numbers, the response time is in whole milliseconds, scores in hundredths.   *)

ResponseScoreUncapped(response_time) == 50 * response_time

\* min((response_time / 200) * 100, 100)
ResponseScore(response_time) == Min(50 * response_time, 10000)

\* _calculate_load_score(cpu, memory, response_time): 0.4 * cpu + 0.3 * memory
\* + 0.3 * response_score, which is a whole number of hundredths here
_calculate_load_score(cpu, memory, response_time) ==
    40 * cpu + 30 * memory + (3 * ResponseScore(response_time)) \div 10

\* round(base_time + load_factor, 2) with base_time = 50 and
\* load_factor = (cpu_percent / 100) * 200
_simulate_response_time(cpu_percent) == 50 + 2 * cpu_percent

Percentages == {0, 1, 50, 99, 100}

\* Response times from none to far beyond the 200 ms at which the score is capped
ResponseTimes == {0, 1, 199, 200, 201, 1000}

\* collect_metrics, where the response time is the simulated one, or
\* _calculate_load_score called with a response time of its own
ScoreSample ==
    /\ last.op = "init"
    /\ \E cpu \in Percentages, memory \in Percentages,
          response_time \in ResponseTimes \cup {_simulate_response_time(c) : c \in Percentages} :
          last' = [op |-> "score", cpu |-> cpu, memory |-> memory,
                   response_time |-> response_time,
                   load_score |-> _calculate_load_score(cpu, memory, response_time)]
    /\ UNCHANGED <<config, current_state, execution_history, now, driver, event_log,
                 predictor, metrics_history, threads, files>>

NextLoadScore == ScoreSample

SpecLoadScore == InitApi /\ [][NextLoadScore]_vars

\* C34: the load score 0.4*cpu + 0.3*memory + 0.3*min(100, response_time/200*100)
\* lies in [0, 100] for cpu and memory in [0, 100] and any response time that is
\* not negative.
C34_LoadScoreInRange ==
    last.op = "score" =>
        /\ 0 <= last.load_score
        /\ last.load_score <= 10000
        /\ last.load_score
              = 40 * last.cpu + 30 * last.memory
                  + (IF last.response_time >= 200 THEN 3000 ELSE 15 * last.response_time)

\* C34 witness: cpu and memory at 100% and a response time of one second give a
\* load score of exactly 100.
C34_Witness ==
    /\ last.op = "score"
    /\ last.cpu = 100
    /\ last.memory = 100
    /\ last.response_time = 1000
    /\ last.load_score = 10000

----------------------------------------------------------------------------
(* main.py and dashboard.py: pipeline cycles on forecasts around the          *)
(* recommender's thresholds, default configuration                            *)

ThresholdLevels == {50, 80, 81, 91, 92}

\* Forecasts of five steps, flat for four steps and then a last step
ThresholdShapes ==
    (ThresholdLevels \X ThresholdLevels) \cup {<<10, 10>>, <<100, 100>>}

ThresholdForecasts ==
    {[i \in 1..5 |-> IF i < 5 THEN shape[1] ELSE shape[2]] : shape \in ThresholdShapes}

ThresholdLoads == {30, 70}

PipelineDecisionUngated(predictions, current_load, at) ==
    LET recommendation == get_scaling_recommendation(predictions, current_load)
    IN  make_scaling_decision(PipelineState(current_load),
                              [recommendation EXCEPT !.confidence = 1000],
                              get_scaling_history(5), at)

\* recommendation, state and decision of one cycle, as main.py and dashboard.py
\* chain them
PipelineDecision(predictions, current_load, at) ==
    LET recommendation == get_scaling_recommendation(predictions, current_load)
    IN  make_scaling_decision(PipelineState(current_load), recommendation,
                              get_scaling_history(5), at)

\* execute_scaling_decision(decision) in a cycle whose forecast and load are kept
CycleExecutes(op, cycle, decision, at, pause) ==
    LET call == execute_scaling_decision(decision, at)
    IN  /\ current_state' = call.state
        /\ execution_history' = call.history
        /\ event_log' = event_log \o call.appended
        /\ now' = at + call.elapsed + pause
        /\ files' = IF call.raised THEN files ELSE _save_state(files, call.state)
        /\ last' = [op |-> op, decision |-> decision, pre |-> current_state,
                    logged |-> Len(event_log), at |-> at, raised |-> call.raised,
                    executed |-> TRUE] @@ cycle

\* dashboard.py execute_scaling: the decision is executed whatever it is
ManualCycle ==
    /\ driver = "dashboard"
    /\ Calls < MaxRepeats
    /\ \E predictions \in ThresholdForecasts, current_load \in ThresholdLoads,
          gap \in {10, scaling_interval} :
          LET at == now + Seconds(gap)
              decision == PipelineDecision(predictions, current_load, at)
          IN  CycleExecutes("cycle",
                            [predictions |-> predictions, current_load |-> current_load],
                            decision, at, 0)
    /\ UNCHANGED <<config, driver, predictor, metrics_history, threads>>

\* main.py _scaling_decision_loop: the decision is executed unless it is maintain
ScheduledCycle ==
    /\ driver = "loop"
    /\ now < MaxRepeats * Seconds(2 * scaling_interval)
    /\ \E predictions \in ThresholdForecasts, current_load \in ThresholdLoads :
          LET at == now + Seconds(scaling_interval)
              decision == PipelineDecision(predictions, current_load, at)
              cycle == [predictions |-> predictions, current_load |-> current_load]
          IN  IF decision.action # "maintain"
              THEN CycleExecutes("cycle", cycle, decision, at, Seconds(scaling_interval))
              ELSE /\ last' = [op |-> "cycle", decision |-> decision, pre |-> current_state,
                               logged |-> Len(event_log), at |-> at, raised |-> FALSE,
                               executed |-> FALSE] @@ cycle
                   /\ now' = at + Seconds(scaling_interval)
                   /\ UNCHANGED <<current_state, execution_history, event_log, files>>
    /\ UNCHANGED <<config, driver, predictor, metrics_history, threads>>

NextThreshold == ManualCycle \/ ScheduledCycle

SpecThreshold == Init /\ [][NextThreshold]_vars

CycleDecided == last.op = "cycle"

MaxPredicted == MaxOf(last.predictions)

TrendOfCycle == last.predictions[Len(last.predictions)] - last.current_load

\* C39: with the default configuration and predictions in [0,100], the pipeline
\* decides scale_up only when the maximum predicted load is at least 92, or it is
\* at most 80 and the last prediction exceeds the current load by more than 15;
\* a maximum predicted load strictly between 80 and 92 always ends in maintain.
C39_ScaleUpOnlyFromThresholds ==
    CycleDecided =>
        /\ last.decision.action = "scale_up" =>
               \/ MaxPredicted >= 92
               \/ MaxPredicted <= 80 /\ TrendOfCycle > 15
        /\ (80 < MaxPredicted /\ MaxPredicted < 92) => last.decision.action = "maintain"

\* C39 witness: a forecast with maximum 92 has been decided scale_up and executed
C39_Witness ==
    /\ CycleDecided
    /\ MaxPredicted = 92
    /\ last.decision.action = "scale_up"
    /\ last.executed
    /\ current_state.instances > last.pre.instances

\* a forecast below 80 rising by more than 15 over the current load has been
\* decided scale_up
C39_TrendWitness ==
    /\ CycleDecided
    /\ MaxPredicted <= 80
    /\ TrendOfCycle > 15
    /\ last.decision.action = "scale_up"

\* a forecast with maximum 91 has been decided maintain for low confidence
C39_VetoWitness ==
    /\ CycleDecided
    /\ MaxPredicted = 91
    /\ last.decision.action = "maintain"
    /\ last.decision.reason[1] = "Low confidence"

============================================================================
